---- MODULE Spec2Model ----
(***************************************************************************)
(* A model of revault_tx's PSBT-wrapped transactions: the Unvault and the   *)
(* Spend constructors and parsers (src/src/transactions/unvault.rs,         *)
(* spend.rs) and the RevaultTransaction methods every transaction type      *)
(* shares (src/src/transactions/mod.rs): signature_hash, add_signature,     *)
(* finalize, is_finalizable, is_finalized, verify_inputs, fees.             *)
(*                                                                         *)
(* Numbers.  TLC's integers are 32 bit wide while amounts are u64 satoshis  *)
(* (MAX_MONEY is 2.1 * 10^15), so an amount is three decimal limbs          *)
(* <<a2, a1, a0>> standing for a2 * 10^18 + a1 * 10^9 + a0.  An nSequence   *)
(* (u32) is two 16 bit halves <<hi, lo>>.  Weights, feerates and counts are *)
(* plain integers.                                                          *)
(*                                                                         *)
(* Cryptography.  A public key is a small integer.  A signature is a record *)
(* [key, msg, nonce]: made by `key` over the digest `msg`; `nonce` tells    *)
(* apart two signatures of the same digest by the same key.  The BIP-143    *)
(* digest of an input is <<idx, ty>>, its index and the sighash type: a     *)
(* state holds one transaction, whose unsigned part never changes.  SHA256, *)
(* used by P2WSH, is the injective tagging <<"sha256", script>>.            *)
(*                                                                         *)
(* External code.  miniscript::psbt::finalize and bitcoinconsensus::verify  *)
(* are libraries the crate calls.  The finalizer is modelled as the release *)
(* the crate builds against behaves: it checks the partial signatures'      *)
(* format, then seals the inputs one after the other, in place, returning   *)
(* at the first input it cannot satisfy, and last runs its interpreter on   *)
(* the sealed witnesses.  The consensus verifier accepts an input whose     *)
(* witness is a correct satisfaction unless the variable `consensus` is     *)
(* FALSE, the case mod.rs:336-338 names: Miniscript's interpreter passes    *)
(* and libbitcoinconsensus does not.                                        *)
(***************************************************************************)
EXTENDS Integers, Sequences, FiniteSets, TLC

VARIABLES
    psbt,       \* the transaction's inner PSBT, NoPsbt before a constructor or parser returned Ok
    kind,       \* "none", "Unvault" or "Spend": the newtype wrapping psbt
    call,       \* the constructor or parser call that was made last, with its arguments
    consensus,  \* whether libbitcoinconsensus agrees with Miniscript's interpreter on this transaction
    ret,        \* the last method call: [op, idx, key, sig, res, val]
    descriptor  \* the descriptor a descriptor constructor or parser returned, NoDescriptor before

vars == <<psbt, kind, call, consensus, ret, descriptor>>

-----------------------------------------------------------------------------
(* Program constants *)

UNVAULT_CPFP_VALUE == 30000
UNVAULT_TX_FEERATE == 6
DUST_LIMIT == 200000
INSANE_FEES == 20000000
TX_VERSION == 2
MAX_STANDARD_TX_WEIGHT == 400000
SPEND_CPFP_FEERATE == 16

\* SigHashType::as_u32
CPFP_MIN_CHANGE == 10000
OP_RETURN_DUMMY_DATA == 22
SIGHASH_ALL == 1
SIGHASH_ALL_ANYONECANPAY == 129
CANCEL_TX_FEERATE == 22
EMER_TX_FEERATE == 75

\* The RBF sentinel 0xfffffffd, as two 16 bit halves
RBF_SEQUENCE == <<65535, 65533>>

-----------------------------------------------------------------------------
(* Bounds of the model *)

\* The most inputs a Spend is built or parsed with
MaxInputs == 2
\* The most destination outputs SpendTransaction::new is given
MaxSpendOuts == 2
\* The number of public keys (each witness script is an N-of-N of them)
NKeys == 2

Keys == 1..NKeys

-----------------------------------------------------------------------------
(* Option<T>: None is the empty sequence, Some(x) the sequence of x alone *)

None == <<>>
Some(x) == <<x>>
IsSome(o) == Len(o) = 1
IsNone(o) == Len(o) = 0
Unwrap(o) == o[1]

-----------------------------------------------------------------------------
(* u64 amounts as three limbs of nine decimal digits *)

LIMB == 1000 * 1000 * 1000

\* A small number of satoshis (below 2^31) as an amount
Sat(n) == <<0, n \div LIMB, n % LIMB>>

U64_MAX == <<18, 446744073, 709551615>>

\* max_money(Network::Bitcoin) = 21,000,000 * 100,000,000
MAX_MONEY == <<0, 2100000, 0>>

AmtLess(a, b) ==
    \/ a[1] < b[1]
    \/ a[1] = b[1] /\ a[2] < b[2]
    \/ a[1] = b[1] /\ a[2] = b[2] /\ a[3] < b[3]

AmtLe(a, b) == a = b \/ AmtLess(a, b)

\* a + b, exact (the model's amounts keep every sum below 2^64)
AmtAdd(a, b) ==
    LET s0 == a[3] + b[3]
        s1 == a[2] + b[2] + (s0 \div LIMB)
    IN  <<a[1] + b[1] + (s1 \div LIMB), s1 % LIMB, s0 % LIMB>>

\* a - b for b <= a
AmtSub(a, b) ==
    LET b0 == IF a[3] < b[3] THEN 1 ELSE 0
        d0 == a[3] + b0 * LIMB - b[3]
        b1 == IF a[2] < b[2] + b0 THEN 1 ELSE 0
        d1 == a[2] + b1 * LIMB - b[2] - b0
    IN  <<a[1] - b[1] - b1, d1, d0>>

\* u64::checked_sub
CheckedSub(a, b) == IF AmtLess(a, b) THEN None ELSE Some(AmtSub(a, b))

RECURSIVE AmtSum(_)
AmtSum(s) == IF s = <<>> THEN Sat(0) ELSE AmtAdd(Head(s), AmtSum(Tail(s)))

RECURSIVE IntSum(_)
IntSum(s) == IF s = <<>> THEN 0 ELSE Head(s) + IntSum(Tail(s))

-----------------------------------------------------------------------------
(* Scripts *)

Sha256(script) == <<"sha256", script>>

\* Script::to_v0_p2wsh, Address::p2wsh(..).script_pubkey(): OP_0 <sha256(witness script)>
P2wsh(ws) == [ty |-> "p2wsh", prog |-> Sha256(ws)]

\* A P2WPKH script pubkey: OP_0 <hash160(pubkey)>
P2wpkh(owner) == [ty |-> "p2wpkh", prog |-> <<"hash160", owner>>]

is_v0_p2wsh(spk) == spk.ty = "p2wsh"
is_v0_p2wpkh(spk) == spk.ty = "p2wpkh"

\* Script::new_op_return(data): OP_RETURN and a push of len bytes of data
OpReturn(len) == [ty |-> "op_return", len |-> len]

\* Script::len: 34 bytes for a P2WSH, 22 for a P2WPKH, the opcode, the push
\* opcode and the data of an OP_RETURN
ScriptLen(spk) ==
    IF spk.ty = "p2wsh" THEN 34
    ELSE IF spk.ty = "op_return" THEN 2 + spk.len
    ELSE 22

\* Script::dust_value for a witness program: 3 * (32 + 4 + 1 + 107/4 + 4 + 8 + 1 + len)
dust_value(spk) == 3 * (32 + 4 + 1 + (107 \div 4) + 4 + 8 + 1 + ScriptLen(spk))

\* The length of a Bitcoin VarInt
VarIntLen(n) == IF n < 253 THEN 1 ELSE IF n < 65536 THEN 3 ELSE 5

-----------------------------------------------------------------------------
(* Transactions *)

\* Transaction::get_weight of a transaction without witness data
get_weight(tx) ==
    LET input_weight == 4 * (32 + 4 + 4 + VarIntLen(0)) * Len(tx.input)
        output_size ==
            IntSum([i \in 1..Len(tx.output) |->
                8 + VarIntLen(ScriptLen(tx.output[i].script_pubkey))
                  + ScriptLen(tx.output[i].script_pubkey)])
        non_input_size ==
            4 + VarIntLen(Len(tx.input)) + VarIntLen(Len(tx.output)) + output_size + 4
    IN  non_input_size * 4 + input_weight

\* Transaction::txid: a digest of version, lock_time, inputs and outputs
Txid(tx) == <<"txid", tx.version, tx.lock_time, tx.input, tx.output>>

\* PsbtIn::default()
PsbtInDefault ==
    [ witness_utxo |-> None,
      non_witness_utxo |-> None,
      witness_script |-> None,
      sighash_type |-> None,
      partial_sigs |-> <<>>,
      bip32_derivation |-> {},
      final_script_witness |-> None ]

\* PsbtOut::default()
PsbtOutDefault == [bip32_derivation |-> {}]

NoPsbt == [unsigned_tx |-> [version |-> 0, lock_time |-> 0, input |-> <<>>, output |-> <<>>],
           inputs |-> <<>>, outputs |-> <<>>]

\* A transaction output of the crate (DepositTxOut, UnvaultTxOut, CpfpTxOut): the
\* TxOut with the witness script, bip32 paths and maximum satisfaction weight of
\* the descriptor it was made from
DescTxOut(value, desc) ==
    [ txout |-> [value |-> value, script_pubkey |-> P2wsh(desc.ws)],
      witness_script |-> desc.ws,
      bip32_derivation |-> desc.keys,
      max_sat_weight |-> desc.max_sat_weight ]

\* TxIn of a typed txin: unsigned_txin()
unsigned_txin(txin) == [previous_output |-> txin.outpoint, sequence |-> txin.sequence]

-----------------------------------------------------------------------------
(* UnvaultTransaction: the constructor *)

\* UnvaultTransaction::create_psbt
UnvaultCreatePsbt(deposit_txin, unvault_txout, cpfp_txout, lock_time) ==
    [ outputs |-> << [PsbtOutDefault EXCEPT !.bip32_derivation = unvault_txout.bip32_derivation],
                     [PsbtOutDefault EXCEPT !.bip32_derivation = cpfp_txout.bip32_derivation] >>,
      unsigned_tx |->
        [ version |-> TX_VERSION,
          lock_time |-> lock_time,
          input |-> << unsigned_txin(deposit_txin) >>,
          output |-> << unvault_txout.txout, cpfp_txout.txout >> ],
      inputs |-> << [PsbtInDefault EXCEPT
                        !.witness_script = Some(deposit_txin.txout.witness_script),
                        !.bip32_derivation = deposit_txin.txout.bip32_derivation,
                        !.sighash_type = Some(SIGHASH_ALL),
                        !.witness_utxo = Some(deposit_txin.txout.txout)] >> ]

\* The weight UnvaultTransaction::new computes the fees from: the dummy
\* transaction's witness-stripped weight plus the deposit's max satisfaction weight
UnvaultTotalWeight(deposit_input, unvault_descriptor, cpfp_descriptor, lock_time) ==
    LET dummy_unvault_txout == DescTxOut(U64_MAX, unvault_descriptor)
        dummy_cpfp_txout == DescTxOut(U64_MAX, cpfp_descriptor)
        dummy_tx == UnvaultCreatePsbt(deposit_input, dummy_unvault_txout,
                                      dummy_cpfp_txout, lock_time).unsigned_tx
    IN  get_weight(dummy_tx) + deposit_input.txout.max_sat_weight

\* The fees of an Unvault: UNVAULT_TX_FEERATE.checked_mul(total_weight)
UnvaultFees(total_weight) == UNVAULT_TX_FEERATE * total_weight

\* The pre-check, were it to refuse the deposit of exactly fees + 230,000 sats
UnvaultIsDustInclusive(fees, deposit_value) ==
    AmtLe(deposit_value, Sat(fees + UNVAULT_CPFP_VALUE + DUST_LIMIT))

\* The pre-check of the unvault output's value:
\* fees + UNVAULT_CPFP_VALUE + DUST_LIMIT > deposit_value
UnvaultIsDust(fees, deposit_value) ==
    AmtLess(deposit_value, Sat(fees + UNVAULT_CPFP_VALUE + DUST_LIMIT))

\* The unvault output's value, were the CPFP output's value left in it
UnvaultValueKeepingCpfp(fees, deposit_value) == AmtSub(deposit_value, Sat(fees))

\* deposit_value - fees - UNVAULT_CPFP_VALUE
UnvaultValue(fees, deposit_value) ==
    AmtSub(AmtSub(deposit_value, Sat(fees)), Sat(UNVAULT_CPFP_VALUE))

\* The value given to the CPFP output of an Unvault
UnvaultCpfpValue == Sat(UNVAULT_CPFP_VALUE)

\* UnvaultTransaction::new: [res, psbt], res being "Ok", an error or "panic"
UnvaultNew(deposit_input, unvault_descriptor, cpfp_descriptor, lock_time) ==
    LET total_weight == UnvaultTotalWeight(deposit_input, unvault_descriptor,
                                           cpfp_descriptor, lock_time)
        fees == UnvaultFees(total_weight)
        deposit_value == deposit_input.txout.txout.value
        unvault_value == UnvaultValue(fees, deposit_value)
    IN  IF fees > INSANE_FEES
          THEN [res |-> "InsaneFees", psbt |-> NoPsbt]
        ELSE IF ~(total_weight <= MAX_STANDARD_TX_WEIGHT)
          THEN [res |-> "panic", psbt |-> NoPsbt]
        ELSE IF UnvaultIsDust(fees, deposit_value)
          THEN [res |-> "Dust", psbt |-> NoPsbt]
        ELSE IF AmtLess(MAX_MONEY, unvault_value)
          THEN [res |-> "InsaneAmounts", psbt |-> NoPsbt]
        ELSE [res |-> "Ok",
              psbt |-> UnvaultCreatePsbt(deposit_input,
                                         DescTxOut(unvault_value, unvault_descriptor),
                                         DescTxOut(UnvaultCpfpValue, cpfp_descriptor),
                                         lock_time)]

-----------------------------------------------------------------------------
(* SpendTransaction: the constructor *)

\* The sum of the inputs' maximum satisfaction weights
SatWeight(unvault_inputs) ==
    IntSum([i \in 1..Len(unvault_inputs) |-> unvault_inputs[i].txout.max_sat_weight])

\* cpfp_txout, were it to weigh the transaction without a CPFP output in it
SpendCpfpTxoutBare(unvault_inputs, spend_txouts, change_txout, cpfp_descriptor, lock_time) ==
    LET txos == spend_txouts
                \o (IF IsSome(change_txout) THEN << Unwrap(change_txout).txout >> ELSE <<>>)
        dummy_tx == [ version |-> TX_VERSION,
                      lock_time |-> lock_time,
                      input |-> [i \in 1..Len(unvault_inputs) |-> unsigned_txin(unvault_inputs[i])],
                      output |-> txos ]
        total_weight == SatWeight(unvault_inputs) + get_weight(dummy_tx)
    IN  DescTxOut(Sat(SPEND_CPFP_FEERATE * total_weight), cpfp_descriptor)

\* SpendTransaction::cpfp_txout
SpendCpfpTxout(unvault_inputs, spend_txouts, change_txout, cpfp_descriptor, lock_time) ==
    LET dummy_cpfp_txo == DescTxOut(U64_MAX, cpfp_descriptor)
        txos == << dummy_cpfp_txo.txout >> \o spend_txouts
                \o (IF IsSome(change_txout) THEN << Unwrap(change_txout).txout >> ELSE <<>>)
        dummy_tx == [ version |-> TX_VERSION,
                      lock_time |-> lock_time,
                      input |-> [i \in 1..Len(unvault_inputs) |-> unsigned_txin(unvault_inputs[i])],
                      output |-> txos ]
        total_weight == SatWeight(unvault_inputs) + get_weight(dummy_tx)
        cpfp_value == SPEND_CPFP_FEERATE * total_weight
    IN  DescTxOut(Sat(cpfp_value), cpfp_descriptor)

\* The value SpendTransaction::new accumulates in value_out: the destination
\* outputs and the change output
SpendValueOut(spend_txouts, change_txout) ==
    AmtAdd(AmtSum([i \in 1..Len(spend_txouts) |-> spend_txouts[i].value]),
           IF IsSome(change_txout) THEN Unwrap(change_txout).txout.value ELSE Sat(0))

\* Does SpendTransaction::new meet an output below its script's dust threshold
SpendHasDust(txouts) ==
    \E i \in 1..Len(txouts) :
        AmtLess(txouts[i].value, Sat(dust_value(txouts[i].script_pubkey)))

\* SpendTransaction::new: [res, psbt]
SpendNew(unvault_inputs, spend_txouts, change_txout, cpfp_descriptor, lock_time, insane_fee_check) ==
    LET uniq_txins == {unvault_inputs[i].outpoint : i \in 1..Len(unvault_inputs)}
        cpfp_txo == SpendCpfpTxout(unvault_inputs, spend_txouts, change_txout,
                                   cpfp_descriptor, lock_time)
        sat_weight == SatWeight(unvault_inputs)
        change_txos == IF IsSome(change_txout) THEN << Unwrap(change_txout).txout >> ELSE <<>>
        txos == << cpfp_txo.txout >> \o spend_txouts \o change_txos
        psbtouts ==
            << [PsbtOutDefault EXCEPT !.bip32_derivation = cpfp_txo.bip32_derivation] >>
            \o [i \in 1..Len(spend_txouts) |-> PsbtOutDefault]
            \o (IF IsSome(change_txout)
                  THEN << [PsbtOutDefault EXCEPT
                              !.bip32_derivation = Unwrap(change_txout).bip32_derivation] >>
                  ELSE <<>>)
        value_out == SpendValueOut(spend_txouts, change_txout)
        value_in == AmtSum([i \in 1..Len(unvault_inputs) |-> unvault_inputs[i].txout.txout.value])
        new_psbt ==
            [ unsigned_tx |->
                [ version |-> TX_VERSION,
                  lock_time |-> lock_time,
                  input |-> [i \in 1..Len(unvault_inputs) |-> unsigned_txin(unvault_inputs[i])],
                  output |-> txos ],
              inputs |-> [i \in 1..Len(unvault_inputs) |->
                            [PsbtInDefault EXCEPT
                                !.witness_script = Some(unvault_inputs[i].txout.witness_script),
                                !.bip32_derivation = unvault_inputs[i].txout.bip32_derivation,
                                !.sighash_type = Some(SIGHASH_ALL),
                                !.witness_utxo = Some(unvault_inputs[i].txout.txout)]],
              outputs |-> psbtouts ]
        total_weight == sat_weight + get_weight(new_psbt.unsigned_tx)
        fees == CheckedSub(value_in, value_out)
    IN  IF Cardinality(uniq_txins) # Len(unvault_inputs)
          THEN [res |-> "DuplicatedInput", psbt |-> NoPsbt]
        ELSE IF SpendHasDust(spend_txouts \o change_txos)
          THEN [res |-> "Dust", psbt |-> NoPsbt]
        ELSE IF total_weight > MAX_STANDARD_TX_WEIGHT
          THEN [res |-> "TooLarge", psbt |-> NoPsbt]
        ELSE IF AmtLess(MAX_MONEY, value_out)
          THEN [res |-> "InsaneAmounts", psbt |-> NoPsbt]
        ELSE IF IsNone(fees)
          THEN [res |-> "NegativeFees", psbt |-> NoPsbt]
        ELSE IF insane_fee_check /\ AmtLess(Sat(INSANE_FEES), Unwrap(fees))
          THEN [res |-> "InsaneFees", psbt |-> NoPsbt]
        ELSE [res |-> "Ok", psbt |-> new_psbt]

-----------------------------------------------------------------------------
(* Fees *)

\* utils::psbt_fees: the inputs' witness_utxo values minus the outputs' values,
\* None when the subtraction underflows
psbt_fees(p) ==
    CheckedSub(AmtSum([i \in 1..Len(p.inputs) |-> Unwrap(p.inputs[i].witness_utxo).value]),
               AmtSum([i \in 1..Len(p.unsigned_tx.output) |-> p.unsigned_tx.output[i].value]))

\* RevaultTransaction::fees: [res, val], a panic when psbt_fees fails
Fees(p) ==
    IF IsNone(psbt_fees(p)) THEN [res |-> "panic", val |-> Sat(0)]
    ELSE [res |-> "Ok", val |-> Unwrap(psbt_fees(p))]

-----------------------------------------------------------------------------
(* The arguments the constructors are called with *)

\* Derived descriptors: the witness script, the keys of its bip32 paths and the
\* maximum satisfaction weight (224 for a deposit of two stakeholders, the setup
\* whose smallest deposit is the 234,632 sats of tests::transaction_derivation)
DepositDescriptor(max_sat_weight) ==
    [ws |-> "deposit", keys |-> Keys, max_sat_weight |-> max_sat_weight]
UnvaultDescriptor == [ws |-> "unvault", keys |-> Keys, max_sat_weight |-> 546]

\* An Unvault descriptor whose satisfaction weighs what that of several hundred
\* Unvault inputs does: with one such input, a P2WSH and a P2WPKH destination a
\* Spend weighs 400,000 exactly
HeavyUnvaultDescriptor == [ws |-> "unvault_heavy", keys |-> Keys, max_sat_weight |-> 399328]
CpfpDescriptor == [ws |-> "cpfp", keys |-> Keys, max_sat_weight |-> 184]

\* DepositTxIn::new(outpoint, DepositTxOut::new(value, descriptor))
DepositTxIn(outpoint, value, max_sat_weight) ==
    [ outpoint |-> outpoint,
      txout |-> DescTxOut(value, DepositDescriptor(max_sat_weight)),
      sequence |-> RBF_SEQUENCE ]

\* UnvaultTxIn::new(outpoint, UnvaultTxOut::new(value, descriptor), csv)
UnvaultTxIn(outpoint, value, csv) ==
    [ outpoint |-> outpoint,
      txout |-> DescTxOut(value, UnvaultDescriptor),
      sequence |-> <<0, csv>> ]

\* A CPFP descriptor of many managers, heavier to satisfy
HeavyCpfpDescriptor == [ws |-> "cpfp_heavy", keys |-> Keys, max_sat_weight |-> 780]

\* UnvaultTxIn::new on an output of the heavy descriptor
HeavyUnvaultTxIn(outpoint, value, csv) ==
    [ outpoint |-> outpoint,
      txout |-> DescTxOut(value, HeavyUnvaultDescriptor),
      sequence |-> <<0, csv>> ]

\* The maximum satisfaction weights of the deposits: two stakeholders, more
\* stakeholders, and a weight no descriptor reaches that makes the fees insane
DepositSatWeights == {224, 1112, 3400000}

\* The fees and the smallest deposit value of an Unvault spending a deposit of
\* this satisfaction weight (548 is the weight of its unsigned transaction)
FeesOf(max_sat_weight) == UNVAULT_TX_FEERATE * (548 + max_sat_weight)
MinDeposit(max_sat_weight) == FeesOf(max_sat_weight) + UNVAULT_CPFP_VALUE + DUST_LIMIT

\* Deposit values: around the dust boundary of each descriptor, a plain one, and
\* around the largest deposit whose unvault output is MAX_MONEY
DepositValues ==
    { Sat(MinDeposit(w) - 1) : w \in {224, 1112} }
    \cup { Sat(MinDeposit(w)) : w \in {224, 1112} }
    \cup { Sat(0), Sat(1000000) }
    \cup { AmtAdd(MAX_MONEY, Sat(FeesOf(w) + UNVAULT_CPFP_VALUE + d)) :
             w \in {224, 1112}, d \in {0, 1} }

LockTimes == {0, 144}

\* The values of the Unvault outputs a Spend spends, and of its outputs: below
\* and above the dust thresholds (294 for P2WPKH, 330 for P2WSH), close to an
\* input's value, MAX_MONEY and above MAX_MONEY
SpendInValues == { Sat(1000000), Sat(30000000) }
SpendOutValues == { Sat(329), Sat(995000) }
SpendOutScripts == { P2wpkh("destination"), P2wsh("destination") }
ChangeValues == { Sat(329), Sat(400000) }

\* Sequences over S of length at most n
SeqUpTo(S, n) == UNION { [1..m -> S] : m \in 0..n }

UnvaultInputs ==
    { UnvaultTxIn(o, v, 144) : o \in 1..MaxInputs, v \in SpendInValues }
    \cup { UnvaultTxIn(1, MAX_MONEY, 144), HeavyUnvaultTxIn(1, Sat(1000000), 144) }
SpendTxOuts ==
    { [value |-> v, script_pubkey |-> s] : v \in SpendOutValues, s \in SpendOutScripts }
    \cup { [value |-> MAX_MONEY, script_pubkey |-> P2wsh("destination")],
           [value |-> AmtAdd(MAX_MONEY, Sat(1)), script_pubkey |-> P2wpkh("destination")] }
ChangeTxOuts == { None } \cup { Some(DescTxOut(v, DepositDescriptor(224))) : v \in ChangeValues }

-----------------------------------------------------------------------------
(* UnvaultTransaction: the txin getters *)

\* The CSV values of the Unvault descriptors the getters are called with
CsvValues == {1, 144, 65535}

\* A derived Unvault descriptor whose script carries the CSV value csv
DerivedUnvaultDescriptor(csv) ==
    [ws |-> UnvaultDescriptor.ws, keys |-> UnvaultDescriptor.keys,
     max_sat_weight |-> UnvaultDescriptor.max_sat_weight, csv |-> csv]

\* DerivedUnvaultDescriptor::csv_value, as the u32 an nSequence is
csv_value(unvault_descriptor) ==
    <<unvault_descriptor.csv \div 65536, unvault_descriptor.csv % 65536>>

\* UnvaultTransaction::unvault_txin: [res, val], the txin referencing the first
\* output that pays to the descriptor's script; it panics when there is none
unvault_txin(p, unvault_descriptor, sequence) ==
    LET spk == P2wsh(unvault_descriptor.ws)
        found == {n \in 1..Len(p.unsigned_tx.output) :
                     p.unsigned_tx.output[n].script_pubkey = spk}
    IN  IF found = {} THEN [res |-> "panic", val |-> None]
        ELSE LET index == CHOOSE n \in found : \A m \in found : n <= m
                 txo == p.unsigned_tx.output[index]
             IN  [ res |-> "Ok",
                   val |-> Some([ outpoint |-> [txid |-> Txid(p.unsigned_tx), vout |-> index - 1],
                                  txout |-> DescTxOut(txo.value, unvault_descriptor),
                                  sequence |-> sequence ]) ]

\* spend_unvault_txin, were it to signal replaceability as the revocations do
spend_unvault_txinRbf(p, unvault_descriptor) ==
    unvault_txin(p, unvault_descriptor, RBF_SEQUENCE)

\* UnvaultTransaction::spend_unvault_txin
spend_unvault_txin(p, unvault_descriptor) ==
    unvault_txin(p, unvault_descriptor, csv_value(unvault_descriptor))

\* UnvaultTransaction::revault_unvault_txin
revault_unvault_txin(p, unvault_descriptor) ==
    unvault_txin(p, unvault_descriptor, RBF_SEQUENCE)

-----------------------------------------------------------------------------
(* The revocation transactions and transaction_chain *)

\* derive() of a descriptor of the transactions: the witness script is that of
\* the keys at derivation_index
DeriveAt(desc, derivation_index) == [desc EXCEPT !.ws = << desc.ws, derivation_index >>]

\* DepositTxIn::new(outpoint, DepositTxOut::new(value, descriptor))
DepositTxInOf(outpoint, value, der_deposit_descriptor) ==
    [ outpoint |-> outpoint,
      txout |-> DescTxOut(value, der_deposit_descriptor),
      sequence |-> RBF_SEQUENCE ]

\* The PSBT of a revocation transaction without a feebump input: it spends
\* txin, signed with ALL | ANYONECANPAY, to the one output txout
RevocationCreatePsbt(txin, txout, bip32_derivation, lock_time) ==
    [ outputs |-> << [PsbtOutDefault EXCEPT !.bip32_derivation = bip32_derivation] >>,
      unsigned_tx |->
        [ version |-> TX_VERSION,
          lock_time |-> lock_time,
          input |-> << unsigned_txin(txin) >>,
          output |-> << txout >> ],
      inputs |-> << [PsbtInDefault EXCEPT
                        !.witness_script = Some(txin.txout.witness_script),
                        !.bip32_derivation = txin.txout.bip32_derivation,
                        !.sighash_type = Some(SIGHASH_ALL_ANYONECANPAY),
                        !.witness_utxo = Some(txin.txout.txout)] >> ]

\* A revocation transaction at feerate, paying script_pubkey what txin is
\* worth less the fees: [res, psbt]; Dust when the output would be worth less
\* than DUST_LIMIT
RevocationNew(txin, script_pubkey, bip32_derivation, feerate, lock_time) ==
    LET dummy == RevocationCreatePsbt(txin, [value |-> U64_MAX, script_pubkey |-> script_pubkey],
                                      bip32_derivation, lock_time)
        fees == feerate * (get_weight(dummy.unsigned_tx) + txin.txout.max_sat_weight)
        value == txin.txout.txout.value
    IN  IF AmtLess(value, Sat(fees + DUST_LIMIT)) THEN [res |-> "Dust", psbt |-> NoPsbt]
        ELSE [res |-> "Ok",
              psbt |-> RevocationCreatePsbt(txin,
                           [value |-> AmtSub(value, Sat(fees)), script_pubkey |-> script_pubkey],
                           bip32_derivation, lock_time)]

\* CancelTransaction::new without a feebump input: back to a deposit output
CancelNew(unvault_input, der_deposit_descriptor, lock_time) ==
    RevocationNew(unvault_input, P2wsh(der_deposit_descriptor.ws), der_deposit_descriptor.keys,
                  CANCEL_TX_FEERATE, lock_time)

\* EmergencyTransaction::new without a feebump input: to the Emergency address
EmergencyNew(deposit_input, emer_address, lock_time) ==
    RevocationNew(deposit_input, emer_address, {}, EMER_TX_FEERATE, lock_time)

\* UnvaultEmergencyTransaction::new without a feebump input
UnvaultEmergencyNew(unvault_input, emer_address, lock_time) ==
    RevocationNew(unvault_input, emer_address, {}, EMER_TX_FEERATE, lock_time)

\* The result of the chain helpers when they fail
ChainError(res) ==
    [res |-> res, unvault_tx |-> NoPsbt, cancel_tx |-> NoPsbt, emergency_tx |-> NoPsbt,
     unvault_emergency_tx |-> NoPsbt]

\* transaction_chain_manager, were the Cancel given the txin a Spend is
transaction_chain_managerSpendTxin(deposit_outpoint, deposit_amount, deposit_descriptor, unvault_descriptor, cpfp_descriptor, derivation_index, lock_time) ==
    LET der_deposit_descriptor == DeriveAt(deposit_descriptor, derivation_index)
        der_unvault_descriptor == DeriveAt(unvault_descriptor, derivation_index)
        der_cpfp_descriptor == DeriveAt(cpfp_descriptor, derivation_index)
        deposit_txin == DepositTxInOf(deposit_outpoint, deposit_amount, der_deposit_descriptor)
        unvault_tx == UnvaultNew(deposit_txin, der_unvault_descriptor, der_cpfp_descriptor,
                                 lock_time)
    IN  IF unvault_tx.res # "Ok" THEN ChainError(unvault_tx.res)
        ELSE
          LET txin == spend_unvault_txin(unvault_tx.psbt, der_unvault_descriptor)
          IN  IF txin.res # "Ok" THEN ChainError(txin.res)
              ELSE
                LET cancel_tx == CancelNew(Unwrap(txin.val), der_deposit_descriptor, lock_time)
                IN  IF cancel_tx.res # "Ok" THEN ChainError(cancel_tx.res)
                    ELSE [ChainError("Ok") EXCEPT !.unvault_tx = unvault_tx.psbt,
                                                  !.cancel_tx = cancel_tx.psbt]

\* transaction_chain_manager: [res, unvault_tx, cancel_tx, ..], the
\* transactions being there when res is Ok
transaction_chain_manager(deposit_outpoint, deposit_amount, deposit_descriptor, unvault_descriptor, cpfp_descriptor, derivation_index, lock_time) ==
    LET der_deposit_descriptor == DeriveAt(deposit_descriptor, derivation_index)
        der_unvault_descriptor == DeriveAt(unvault_descriptor, derivation_index)
        der_cpfp_descriptor == DeriveAt(cpfp_descriptor, derivation_index)
        deposit_txin == DepositTxInOf(deposit_outpoint, deposit_amount, der_deposit_descriptor)
        unvault_tx == UnvaultNew(deposit_txin, der_unvault_descriptor, der_cpfp_descriptor,
                                 lock_time)
    IN  IF unvault_tx.res # "Ok" THEN ChainError(unvault_tx.res)
        ELSE
          LET txin == revault_unvault_txin(unvault_tx.psbt, der_unvault_descriptor)
          IN  IF txin.res # "Ok" THEN ChainError(txin.res)
              ELSE
                LET cancel_tx == CancelNew(Unwrap(txin.val), der_deposit_descriptor, lock_time)
                IN  IF cancel_tx.res # "Ok" THEN ChainError(cancel_tx.res)
                    ELSE [ChainError("Ok") EXCEPT !.unvault_tx = unvault_tx.psbt,
                                                  !.cancel_tx = cancel_tx.psbt]

\* transaction_chain: [res, unvault_tx, cancel_tx, emergency_tx,
\* unvault_emergency_tx]
transaction_chain(deposit_outpoint, deposit_amount, deposit_descriptor, unvault_descriptor, cpfp_descriptor, derivation_index, emer_address, lock_time) ==
    LET manager == transaction_chain_manager(deposit_outpoint, deposit_amount,
                       deposit_descriptor, unvault_descriptor, cpfp_descriptor,
                       derivation_index, lock_time)
        der_deposit_descriptor == DeriveAt(deposit_descriptor, derivation_index)
        deposit_txin == DepositTxInOf(deposit_outpoint, deposit_amount, der_deposit_descriptor)
        emergency_tx == EmergencyNew(deposit_txin, emer_address, lock_time)
        der_unvault_descriptor == DeriveAt(unvault_descriptor, derivation_index)
    IN  IF manager.res # "Ok" THEN manager
        ELSE IF emergency_tx.res # "Ok" THEN ChainError(emergency_tx.res)
        ELSE
          LET unvault_txin_ == revault_unvault_txin(manager.unvault_tx, der_unvault_descriptor)
          IN  IF unvault_txin_.res # "Ok" THEN ChainError(unvault_txin_.res)
              ELSE
                LET unvault_emergency_tx ==
                        UnvaultEmergencyNew(Unwrap(unvault_txin_.val), emer_address, lock_time)
                IN  IF unvault_emergency_tx.res # "Ok"
                      THEN ChainError(unvault_emergency_tx.res)
                      ELSE [manager EXCEPT !.emergency_tx = emergency_tx.psbt,
                                           !.unvault_emergency_tx = unvault_emergency_tx.psbt]

\* The deposits the chain is built from: too small for the Unvault, enough for
\* the Unvault but not for a revocation, and enough for all; the derivation
\* indexes and the Emergency address
ChainDepositValues ==
    { Sat(0), Sat(MinDeposit(224) - 1), Sat(MinDeposit(224)), Sat(260000), Sat(300000),
      Sat(1000000), Sat(30000000) }
DerivationIndexes == { 0, 42, 2147483647 }
EmergencyAddress == P2wsh(<< "emergency", 0 >>)

-----------------------------------------------------------------------------
(* Signatures *)

\* The BIP-143 digest SigHashCache::signature_hash computes for input
\* input_index of this transaction under sighash_type; the script code and the
\* value it commits to are those of the input, fixed with the transaction
SigHash(input_index, sighash_type) == <<input_index, sighash_type>>

\* Every signature a caller can hold: by any key, over the digest of any input
\* under either sighash type, two of them for each key and digest
Signatures ==
    [ key : Keys, msg : {SigHash(i, ty) : i \in 0..(MaxInputs - 1),
                                          ty \in {SIGHASH_ALL, SIGHASH_ALL_ANYONECANPAY}},
      nonce : {0, 1} ]

\* The signature the owner of key makes over the digest of input_index
Sign(key, input_index, sighash_type, nonce) ==
    [key |-> key, msg |-> SigHash(input_index, sighash_type), nonce |-> nonce]

\* A verification that would not look at the key
SecpVerifyAnyKey(msg, sig, pubkey) == sig.msg = msg

\* Secp256k1::verify(msg, sig, pubkey)
SecpVerify(msg, sig, pubkey) == sig.key = pubkey /\ sig.msg = msg

\* Signature::serialize_der: a tag, then the signature's content
serialize_der(sig) == <<48, sig.key, sig.msg[1], sig.msg[2], sig.nonce>>

\* The bytes add_signature stores: the DER signature, then the sighash type
\* as one byte (expected_sighash_type.as_u32() as u8)
RawSig(sig, sighash_type) == Append(serialize_der(sig), sighash_type % 256)

\* Is rawsig a signature by key over input_index's digest under the sighash
\* type its last byte names: what Miniscript's interpreter and the consensus
\* verifier check of a witness element
RawSigVerifies(rawsig, key, input_index) ==
    /\ Len(rawsig) = 6
    /\ rawsig[1] = 48
    /\ rawsig[2] = key
    /\ rawsig[3] = input_index
    /\ rawsig[4] = rawsig[6]

-----------------------------------------------------------------------------
(* RevaultTransaction: signature_hash, add_signature *)

\* The PSBT input of index input_index (indexes start at 0)
InputAt(p, input_index) == p.inputs[input_index + 1]
InBounds(p, input_index) == input_index >= 0 /\ input_index < Len(p.inputs)

\* signature_hash, were the script code not taken from the witness script
signature_hashWithoutScript(p, input_index, sighash_type) ==
    IF ~InBounds(p, input_index)
      THEN [res |-> "OutOfBounds", val |-> None]
      ELSE [res |-> "Ok", val |-> Some(SigHash(input_index, sighash_type))]

\* RevaultTransaction::signature_hash_cached: [res, val]
signature_hash(p, input_index, sighash_type) ==
    IF ~InBounds(p, input_index)
      THEN [res |-> "OutOfBounds", val |-> None]
    ELSE LET psbtin == InputAt(p, input_index) IN
      IF IsNone(psbtin.witness_utxo)
        THEN [res |-> "panic", val |-> None]
      ELSE IF is_v0_p2wsh(Unwrap(psbtin.witness_utxo).script_pubkey)
        THEN IF IsNone(psbtin.witness_script)
               THEN [res |-> "MissingWitnessScript", val |-> None]
               ELSE [res |-> "Ok", val |-> Some(SigHash(input_index, sighash_type))]
      ELSE IF ~is_v0_p2wpkh(Unwrap(psbtin.witness_utxo).script_pubkey)
        THEN [res |-> "panic", val |-> None]
      ELSE [res |-> "Ok", val |-> Some(SigHash(input_index, sighash_type))]

\* BTreeMap::insert: the map with key bound to value
MapInsert(map, key, value) ==
    [k \in (DOMAIN map) \cup {key} |-> IF k = key THEN value ELSE map[k]]

\* BTreeMap::insert's result, were the previous value dropped
MapPreviousDropped(map, key) == None

\* BTreeMap::insert's result: the value key was bound to, if any
MapPrevious(map, key) == IF key \in DOMAIN map THEN Some(map[key]) ELSE None

\* The assertions add_signature makes of a non-final input (mod.rs:280-311);
\* TRUE when one of them fails
AddSignaturePanics(psbtin) ==
    \/ IsNone(psbtin.witness_utxo)
    \/ IsSome(psbtin.non_witness_utxo)
    \/ /\ IsSome(psbtin.witness_utxo)
       /\ IF IsSome(psbtin.witness_script)
            THEN P2wsh(Unwrap(psbtin.witness_script)) # Unwrap(psbtin.witness_utxo).script_pubkey
            ELSE ~is_v0_p2wpkh(Unwrap(psbtin.witness_utxo).script_pubkey)
    \/ IsNone(psbtin.sighash_type)

\* RevaultTransaction::add_signature: [res, val, psbt]
add_signature(p, input_index, pubkey, signature) ==
    IF ~InBounds(p, input_index)
      THEN [res |-> "OutOfBounds", val |-> None, psbt |-> p]
    ELSE LET psbtin == InputAt(p, input_index) IN
      IF IsSome(psbtin.final_script_witness)
        THEN [res |-> "AlreadyFinalized", val |-> None, psbt |-> p]
      ELSE IF AddSignaturePanics(psbtin)
        THEN [res |-> "panic", val |-> None, psbt |-> p]
      ELSE LET expected_sighash_type == Unwrap(psbtin.sighash_type)
               sighash == signature_hash(p, input_index, expected_sighash_type) IN
        IF sighash.res # "Ok"
          THEN [res |-> sighash.res, val |-> None, psbt |-> p]
        ELSE IF ~SecpVerify(Unwrap(sighash.val), signature, pubkey)
          THEN [res |-> "InvalidSignature", val |-> None, psbt |-> p]
        ELSE LET rawsig == RawSig(signature, expected_sighash_type) IN
          [ res |-> "Ok",
            val |-> MapPrevious(psbtin.partial_sigs, pubkey),
            psbt |-> [p EXCEPT !.inputs[input_index + 1].partial_sigs =
                                    MapInsert(psbtin.partial_sigs, pubkey, rawsig)] ]

\* RevaultTransaction::is_finalized
is_finalized(p) ==
    \E i \in 1..Len(p.inputs) : IsSome(p.inputs[i].final_script_witness)

-----------------------------------------------------------------------------
(* RevaultTransaction: finalize, is_finalizable, verify_inputs *)

\* Every witness script of the model is an N-of-N among Keys: does rawsigs,
\* a map from keys to stored signatures, hold what satisfies it
Satisfiable(rawsigs) == \A k \in Keys : k \in DOMAIN rawsigs

\* The witness Miniscript assembles for a satisfiable input
Satisfaction(psbtin) ==
    [ sigs |-> [k \in Keys |-> psbtin.partial_sigs[k]],
      script |-> Unwrap(psbtin.witness_script) ]

\* Miniscript's first pass over the inputs: every stored signature ends with
\* the byte of the input's sighash type (All when none is recorded) and is DER
WellFormedSigs(psbtin) ==
    LET target == IF IsSome(psbtin.sighash_type) THEN Unwrap(psbtin.sighash_type) ELSE SIGHASH_ALL
    IN  \A k \in DOMAIN psbtin.partial_sigs :
            LET rawsig == psbtin.partial_sigs[k] IN
            /\ Len(rawsig) > 1
            /\ rawsig[Len(rawsig)] = target % 256
            /\ rawsig[1] = 48

\* Miniscript's second pass, for one input: can a descriptor be found for it
\* (a P2WSH output with its matching witness script) and can it be satisfied
CanSeal(psbtin) ==
    /\ IsSome(psbtin.witness_utxo)
    /\ is_v0_p2wsh(Unwrap(psbtin.witness_utxo).script_pubkey)
    /\ IsSome(psbtin.witness_script)
    /\ P2wsh(Unwrap(psbtin.witness_script)) = Unwrap(psbtin.witness_utxo).script_pubkey
    /\ Satisfiable(psbtin.partial_sigs)

\* What Miniscript does to an input it can seal: the witness is stored and the
\* signing material reset
Seal(psbtin) ==
    [psbtin EXCEPT !.final_script_witness = Some(Satisfaction(psbtin)),
                   !.partial_sigs = <<>>,
                   !.sighash_type = None,
                   !.bip32_derivation = {},
                   !.witness_script = None]

\* The second pass from input number n (from 1) on: inputs are sealed in
\* place, in order, and the pass stops at the first it cannot seal
RECURSIVE SealFrom(_, _)
SealFrom(p, n) ==
    IF n > Len(p.inputs) THEN [ok |-> TRUE, psbt |-> p]
    ELSE IF ~CanSeal(p.inputs[n]) THEN [ok |-> FALSE, psbt |-> p]
    ELSE SealFrom([p EXCEPT !.inputs[n] = Seal(p.inputs[n])], n + 1)

\* Does the witness of input number n (from 1) satisfy the output it spends:
\* the script hashes to the program and every signature verifies
WitnessSatisfies(p, n) ==
    LET psbtin == p.inputs[n] IN
    /\ IsSome(psbtin.final_script_witness)
    /\ IsSome(psbtin.witness_utxo)
    /\ is_v0_p2wsh(Unwrap(psbtin.witness_utxo).script_pubkey)
    /\ P2wsh(Unwrap(psbtin.final_script_witness).script) = Unwrap(psbtin.witness_utxo).script_pubkey
    /\ \A k \in Keys :
           RawSigVerifies(Unwrap(psbtin.final_script_witness).sigs[k], k, n - 1)

\* miniscript::psbt::interpreter_check
interpreter_check(p) == \A n \in 1..Len(p.inputs) : WitnessSatisfies(p, n)

\* miniscript::psbt::finalize, were it to drop the witnesses p already holds
\* before it seals the inputs
MiniscriptFinalizeFromScratch(p) ==
    LET reset == [p EXCEPT !.inputs = [n \in 1..Len(p.inputs) |->
                                          [p.inputs[n] EXCEPT !.final_script_witness = None]]]
    IN
    IF Len(p.inputs) # Len(p.unsigned_tx.input) \/ Len(p.inputs) = 0
      THEN [ok |-> FALSE, psbt |-> p]
    ELSE IF \E n \in 1..Len(p.inputs) : ~WellFormedSigs(p.inputs[n])
      THEN [ok |-> FALSE, psbt |-> p]
    ELSE LET sealed == SealFrom(reset, 1) IN
      IF ~sealed.ok THEN sealed
      ELSE [ok |-> interpreter_check(sealed.psbt), psbt |-> sealed.psbt]

\* miniscript::psbt::finalize on p, in place: [ok, psbt]
MiniscriptFinalize(p) ==
    IF Len(p.inputs) # Len(p.unsigned_tx.input) \/ Len(p.inputs) = 0
      THEN [ok |-> FALSE, psbt |-> p]
    ELSE IF \E n \in 1..Len(p.inputs) : ~WellFormedSigs(p.inputs[n])
      THEN [ok |-> FALSE, psbt |-> p]
    ELSE LET sealed == SealFrom(p, 1) IN
      IF ~sealed.ok THEN sealed
      ELSE [ok |-> interpreter_check(sealed.psbt), psbt |-> sealed.psbt]

\* bitcoinconsensus::verify on input number n (from 1) of the extracted
\* transaction; verdict is whether libbitcoinconsensus accepts what
\* Miniscript's interpreter accepts
ConsensusVerify(p, n, verdict) == verdict /\ WitnessSatisfies(p, n)

\* RevaultTransaction::verify_inputs
verify_inputs(p, verdict) ==
    IF \E n \in 1..Len(p.inputs) : IsNone(p.inputs[n].witness_utxo) THEN "panic"
    ELSE IF \A n \in 1..Len(p.inputs) : ConsensusVerify(p, n, verdict) THEN "Ok"
    ELSE "Verification"

\* finalize, were it to work on a clone and keep it on success only
finalizeOnClone(p, verdict) ==
    LET finalized == MiniscriptFinalize(p) IN
    IF ~finalized.ok
      THEN [res |-> "TransactionFinalisation", psbt |-> finalized.psbt]
    ELSE IF verify_inputs(finalized.psbt, verdict) # "Ok"
      THEN [res |-> verify_inputs(finalized.psbt, verdict), psbt |-> p]
    ELSE [res |-> "Ok", psbt |-> finalized.psbt]

\* finalize, were it to make the nSequence of the inputs final as well
finalizeFinalSequence(p, verdict) ==
    LET finalized == MiniscriptFinalize(p)
        final == [finalized.psbt EXCEPT !.unsigned_tx.input =
                     [n \in 1..Len(finalized.psbt.unsigned_tx.input) |->
                        [finalized.psbt.unsigned_tx.input[n] EXCEPT !.sequence = << 65535, 65535 >>]]]
    IN
    IF ~finalized.ok
      THEN [res |-> "TransactionFinalisation", psbt |-> finalized.psbt]
      ELSE [res |-> verify_inputs(final, verdict), psbt |-> final]

\* RevaultTransaction::finalize: [res, psbt]
finalize(p, verdict) ==
    LET finalized == MiniscriptFinalize(p) IN
    IF ~finalized.ok
      THEN [res |-> "TransactionFinalisation", psbt |-> finalized.psbt]
      ELSE [res |-> verify_inputs(finalized.psbt, verdict), psbt |-> finalized.psbt]

\* is_finalizable, were it to keep the consensus check of finalize
is_finalizableChecked(p) == finalize(p, consensus).res = "Ok"

\* RevaultTransaction::is_finalizable
is_finalizable(p) == MiniscriptFinalize(p).ok

\* RevaultTransaction::is_valid
is_valid(p, verdict) ==
    IF ~is_finalized(p) THEN FALSE
    ELSE IF verify_inputs(p, verdict) # "Ok" THEN FALSE
    ELSE interpreter_check(p)

\* SpendTransaction's CpfpableTransaction::max_weight, as to whether it
\* returns: "panic" when one of its expect()s fails, "Ok" otherwise. A
\* finalized transaction is weighed by its witnesses, any other by the
\* witness scripts of its inputs
max_weight(p) ==
    IF is_finalized(p)
      THEN IF \E n \in 1..Len(p.inputs) : IsNone(p.inputs[n].final_script_witness)
             THEN "panic" ELSE "Ok"
      ELSE IF \E n \in 1..Len(p.inputs) : IsNone(p.inputs[n].witness_script)
             THEN "panic" ELSE "Ok"

-----------------------------------------------------------------------------
(* Parsers *)

\* The maximum satisfaction weight Miniscript computes from a witness script
ScriptMaxSatWeight(ws) ==
    IF ws = "deposit" THEN 224
    ELSE IF ws = "unvault" THEN 546
    ELSE IF ws = "unvault_heavy" THEN HeavyUnvaultDescriptor.max_sat_weight
    ELSE IF ws = "cpfp_heavy" THEN HeavyCpfpDescriptor.max_sat_weight
    ELSE 184

\* utils::psbt_common_sanity_checks, which every parser calls first: "Ok" or
\* the error. The version, the counts and the presence of witness_utxo alone
\* are those the transactions' invariants name; a final input is one whose
\* signing material was erased, and final inputs come with final inputs only,
\* as parse_emergency.rs expects of every transaction the parser accepted
psbt_common_sanity_checks(p) ==
    LET final(n) == IsSome(p.inputs[n].final_script_witness) IN
    IF p.unsigned_tx.version # TX_VERSION THEN "InvalidTransactionVersion"
    ELSE IF Len(p.unsigned_tx.input) # Len(p.inputs) THEN "InputCountMismatch"
    ELSE IF Len(p.unsigned_tx.output) # Len(p.outputs) THEN "OutputCountMismatch"
    ELSE IF \E n \in 1..Len(p.inputs) : IsNone(p.inputs[n].witness_utxo)
      THEN "MissingWitnessUtxo"
    ELSE IF \E n \in 1..Len(p.inputs) : IsSome(p.inputs[n].non_witness_utxo)
      THEN "InvalidInputField"
    ELSE IF \E n \in 1..Len(p.inputs) : final(n) /\ IsSome(p.inputs[n].witness_script)
      THEN "PartiallyFinalized"
    ELSE IF \E n, m \in 1..Len(p.inputs) : final(n) /\ ~final(m)
      THEN "PartiallyFinalized"
    ELSE "Ok"

\* The checks UnvaultTransaction::from_raw_psbt makes of its input when it is
\* not final (unvault.rs:207-228)
UnvaultInputCheck(input) ==
    IF input.sighash_type # Some(SIGHASH_ALL) THEN "InvalidSighashType"
    ELSE IF input.bip32_derivation = {} THEN "InvalidInputField"
    ELSE IF IsNone(input.witness_script) THEN "MissingInWitnessScript"
    ELSE IF P2wsh(Unwrap(input.witness_script)) # Unwrap(input.witness_utxo).script_pubkey
      THEN "InvalidInWitnessScript"
    ELSE "Ok"

\* UnvaultTransaction::from_raw_psbt on the decoded PSBT: "Ok" or the error
UnvaultFromRawPsbt(p) ==
    IF psbt_common_sanity_checks(p) # "Ok" THEN psbt_common_sanity_checks(p)
    ELSE IF Len(p.unsigned_tx.output) # 2 THEN "InvalidOutputCount"
    ELSE IF \E n \in 1..Len(p.outputs) : p.outputs[n].bip32_derivation = {}
      THEN "InvalidOutputField"
    ELSE IF Len(p.unsigned_tx.input) # 1 THEN "InvalidInputCount"
    ELSE IF IsNone(p.inputs[1].final_script_witness)
      THEN UnvaultInputCheck(p.inputs[1])
    ELSE "Ok"

\* The checks SpendTransaction::from_raw_psbt makes of one input
\* (spend.rs:249-279)
SpendInputCheck(input) ==
    IF ~is_v0_p2wsh(Unwrap(input.witness_utxo).script_pubkey) THEN "InvalidInputField"
    ELSE IF IsSome(input.final_script_witness) THEN "Ok"
    ELSE IF input.sighash_type # Some(SIGHASH_ALL) THEN "InvalidSighashType"
    ELSE IF IsNone(input.witness_script) THEN "MissingInWitnessScript"
    ELSE IF P2wsh(Unwrap(input.witness_script)) # Unwrap(input.witness_utxo).script_pubkey
      THEN "InvalidInWitnessScript"
    ELSE IF input.bip32_derivation = {} THEN "InvalidInputField"
    ELSE "Ok"

\* The satisfaction weight SpendTransaction::from_raw_psbt adds up: that of the
\* non-final inputs
SpendParsedSatWeight(p) ==
    IntSum([n \in 1..Len(p.inputs) |->
              IF IsSome(p.inputs[n].final_script_witness) THEN 0
              ELSE ScriptMaxSatWeight(Unwrap(p.inputs[n].witness_script))])

\* The first input SpendTransaction::from_raw_psbt refuses; the inputs are
\* checked in order
FirstBadInput(p) ==
    CHOOSE n \in 1..Len(p.inputs) :
        /\ SpendInputCheck(p.inputs[n]) # "Ok"
        /\ \A m \in 1..(n - 1) : SpendInputCheck(p.inputs[m]) = "Ok"

\* SpendTransaction::from_raw_psbt on the decoded PSBT: "Ok" or the error
SpendFromRawPsbt(p) ==
    LET derivation_count ==
            Cardinality({n \in 1..Len(p.outputs) : p.outputs[n].bip32_derivation # {}})
    IN
    IF psbt_common_sanity_checks(p) # "Ok" THEN psbt_common_sanity_checks(p)
    ELSE IF Len(p.inputs) = 0 THEN "InvalidInputCount"
    ELSE IF \E n \in 1..Len(p.inputs) : SpendInputCheck(p.inputs[n]) # "Ok"
      THEN SpendInputCheck(p.inputs[FirstBadInput(p)])
    ELSE IF derivation_count > 2 \/ derivation_count < 1
      THEN "InvalidCountOuputWithDerivations"
    ELSE IF get_weight(p.unsigned_tx) + SpendParsedSatWeight(p) > MAX_STANDARD_TX_WEIGHT
      THEN "TransactionTooLarge"
    ELSE "Ok"

-----------------------------------------------------------------------------
(* CpfpTransaction: from_txins *)

MaxUtxos == 3
MaxTbc == 2

\* CpfpTxIn::new(outpoint, CpfpTxOut::new(value, descriptor))
CpfpTxIn(outpoint, value, desc) ==
    [ outpoint |-> outpoint,
      txout |-> DescTxOut(Sat(value), desc),
      sequence |-> RBF_SEQUENCE ]

\* Amount::as_sat of an amount below 2^31
as_sat(amount) == (amount[1] * LIMB + amount[2]) * LIMB + amount[3]

\* op_return_script, were it to pad the script whatever the inputs
op_return_scriptPadded(cpfp_psbt) == OpReturn(OP_RETURN_DUMMY_DATA)

\* op_return_script
op_return_script(cpfp_psbt) ==
    IF Len(cpfp_psbt.unsigned_tx.input) > 1 THEN OpReturn(0) ELSE OpReturn(OP_RETURN_DUMMY_DATA)

\* The TxIn and the PSBT input from_txins pushes for a txin
CpfpTxInput(txin) == [previous_output |-> txin.outpoint, sequence |-> RBF_SEQUENCE]
CpfpPsbtInput(txin) ==
    [PsbtInDefault EXCEPT
        !.witness_script = Some(txin.txout.witness_script),
        !.bip32_derivation = txin.txout.bip32_derivation,
        !.sighash_type = Some(SIGHASH_ALL),
        !.witness_utxo = Some(txin.txout.txout)]

\* The orders a sort by descending values would leave utxos in
SortedByValueDescending(utxos) ==
    { sorted \in [1..Len(utxos) -> 1..Len(utxos)] :
        /\ \A i, j \in 1..Len(utxos) : i # j => sorted[i] # sorted[j]
        /\ \A i, j \in 1..Len(utxos) :
              i < j => AmtLe(utxos[sorted[j]].txout.txout.value, utxos[sorted[i]].txout.txout.value) }

\* The orders sort_unstable_by_key can leave utxos in: ascending values, equal
\* values in any order
SortedByValue(utxos) ==
    { sorted \in [1..Len(utxos) -> 1..Len(utxos)] :
        /\ \A i, j \in 1..Len(utxos) : i # j => sorted[i] # sorted[j]
        /\ \A i, j \in 1..Len(utxos) :
              i < j => AmtLe(utxos[sorted[i]].txout.txout.value, utxos[sorted[j]].txout.txout.value) }

\* from_txins, were it to ask for the fees needed without the satisfactions
CpfpFeesNeededStripped(tx, total_satisfation_weight, tbc_weight, tbc_fees, target_feerate) ==
    LET package_weight == get_weight(tx) + tbc_weight
        total == (target_feerate * package_weight) \div 1000
    IN  IF total < tbc_fees THEN None ELSE Some(total - tbc_fees)

\* The fees from_txins needs of the CPFP transaction tx for the package to pay
\* target_feerate: None when the Amount subtraction underflows
CpfpFeesNeeded(tx, total_satisfation_weight, tbc_weight, tbc_fees, target_feerate) ==
    LET package_weight == get_weight(tx) + total_satisfation_weight + tbc_weight
        total == (target_feerate * package_weight) \div 1000
    IN  IF total < tbc_fees THEN None ELSE Some(total - tbc_fees)

\* The loop of from_txins: p is the PSBT so far, available_utxos what is left
\* of the sorted candidates
RECURSIVE CpfpLoop(_, _, _, _, _, _, _)
CpfpLoop(p, inputs_sum, total_satisfation_weight, available_utxos, tbc_weight, tbc_fees, target_feerate) ==
    LET fees_needed == CpfpFeesNeeded(p.unsigned_tx, total_satisfation_weight,
                                      tbc_weight, tbc_fees, target_feerate)
        opr == [script_pubkey |-> op_return_script(p), value |-> Sat(0)]
        op_return_tx == [p.unsigned_tx EXCEPT !.output[1] = opr]
        op_return_fees_needed == CpfpFeesNeeded(op_return_tx, total_satisfation_weight,
                                                tbc_weight, tbc_fees, target_feerate)
    IN  IF IsNone(fees_needed) \/ IsNone(op_return_fees_needed)
          THEN [res |-> "panic", psbt |-> NoPsbt]
        ELSE IF inputs_sum > Unwrap(fees_needed) \/ inputs_sum > Unwrap(op_return_fees_needed)
          THEN IF /\ inputs_sum > Unwrap(fees_needed)
                  /\ inputs_sum - Unwrap(fees_needed) > CPFP_MIN_CHANGE
                 THEN [ res |-> "Ok",
                        psbt |-> [p EXCEPT !.unsigned_tx.output[1].value =
                                              Sat(inputs_sum - Unwrap(fees_needed))] ]
                 ELSE [ res |-> "Ok", psbt |-> [p EXCEPT !.unsigned_tx.output[1] = opr] ]
        ELSE IF Len(available_utxos) = 0
          THEN [res |-> "InsufficientFunds", psbt |-> NoPsbt]
        ELSE LET new_input == available_utxos[Len(available_utxos)]
             IN  CpfpLoop([p EXCEPT !.unsigned_tx.input = Append(@, CpfpTxInput(new_input)),
                                    !.inputs = Append(@, CpfpPsbtInput(new_input))],
                          inputs_sum + as_sat(new_input.txout.txout.value),
                          total_satisfation_weight + new_input.txout.max_sat_weight,
                          SubSeq(available_utxos, 1, Len(available_utxos) - 1),
                          tbc_weight, tbc_fees, target_feerate)

\* CpfpTransaction::from_txins, with available_utxos sorted: [res, psbt]
from_txins(to_be_cpfped, tbc_weight, tbc_fees, added_feerate, available_utxos) ==
    IF Len(to_be_cpfped) = 0 \/ tbc_weight = 0 THEN [res |-> "panic", psbt |-> NoPsbt]
    ELSE
    LET dummy_change == to_be_cpfped[Len(to_be_cpfped)].txout.txout
        initial == [ unsigned_tx |->
                       [ version |-> 2,
                         lock_time |-> 0,
                         input |-> [n \in 1..Len(to_be_cpfped) |-> CpfpTxInput(to_be_cpfped[n])],
                         output |-> << dummy_change >> ],
                     inputs |-> [n \in 1..Len(to_be_cpfped) |-> CpfpPsbtInput(to_be_cpfped[n])],
                     outputs |-> << PsbtOutDefault >> ]
        tbc_feerate == (1000 * (tbc_fees + tbc_weight)) \div tbc_weight
        target_feerate == tbc_feerate + added_feerate
    IN  CpfpLoop(initial,
                 IntSum([n \in 1..Len(to_be_cpfped) |-> as_sat(to_be_cpfped[n].txout.txout.value)]),
                 IntSum([n \in 1..Len(to_be_cpfped) |-> to_be_cpfped[n].txout.max_sat_weight]),
                 available_utxos, tbc_weight, tbc_fees, target_feerate)

\* from_txins with an added_feerate at the top of the u64 range, given by its
\* distance to 2^64: added_feerate = 2^64 - below_max, with below_max far
\* below 2^63. With overflow checks (a debug build) the first u64 operation
\* that overflows panics: the sum tbc_feerate + added_feerate when it reaches
\* 2^64, its product with the package weight otherwise. Without them (a
\* release build) the operations wrap: the sum to tbc_feerate - below_max when
\* it reaches 2^64; otherwise the sum is 2^64 - e, its product with the
\* package weight wraps to 2^64 - e x package_weight, and the fees needed,
\* above 10^16 sats, are more than the inputs can sum to, whatever the
\* candidates: every candidate is taken and the result is InsufficientFunds.
from_txinsNearMax(to_be_cpfped, tbc_weight, tbc_fees, below_max, available_utxos, overflow_checks) ==
    IF Len(to_be_cpfped) = 0 \/ tbc_weight = 0 THEN [res |-> "panic", psbt |-> NoPsbt]
    ELSE
    LET dummy_change == to_be_cpfped[Len(to_be_cpfped)].txout.txout
        initial == [ unsigned_tx |->
                       [ version |-> 2,
                         lock_time |-> 0,
                         input |-> [n \in 1..Len(to_be_cpfped) |-> CpfpTxInput(to_be_cpfped[n])],
                         output |-> << dummy_change >> ],
                     inputs |-> [n \in 1..Len(to_be_cpfped) |-> CpfpPsbtInput(to_be_cpfped[n])],
                     outputs |-> << PsbtOutDefault >> ]
        tbc_feerate == (1000 * (tbc_fees + tbc_weight)) \div tbc_weight
    IN  IF overflow_checks THEN [res |-> "panic", psbt |-> NoPsbt]
        ELSE IF tbc_feerate >= below_max
          THEN CpfpLoop(initial,
                   IntSum([n \in 1..Len(to_be_cpfped) |-> as_sat(to_be_cpfped[n].txout.txout.value)]),
                   IntSum([n \in 1..Len(to_be_cpfped) |-> to_be_cpfped[n].txout.max_sat_weight]),
                   available_utxos, tbc_weight, tbc_fees, tbc_feerate - below_max)
        ELSE [res |-> "InsufficientFunds", psbt |-> NoPsbt]

\* What from_txins is called with. The to-be-CPFPed inputs are the CPFP outputs
\* of Unvault transactions; the candidates are worth at most as much and are of
\* either descriptor. The weights, fees and feerates are those of Unvault and
\* Spend transactions, far from the width of a u64.
TbcInputs == { [n \in 1..m |-> CpfpTxIn(n, UNVAULT_CPFP_VALUE, CpfpDescriptor)] : m \in 0..MaxTbc }
CandidateValues == { 4000, 29000, UNVAULT_CPFP_VALUE }
CandidateDescriptors == { CpfpDescriptor, HeavyCpfpDescriptor }
AvailableUtxos ==
    UNION { { [n \in 1..m |-> CpfpTxIn(10 + n, v[n], d[n])] :
                v \in [1..m -> CandidateValues], d \in [1..m -> CandidateDescriptors] } :
            m \in 0..MaxUtxos }
TbcWeights == { 772, 1928 }
TbcFees == { 4632, 12000 }
\* 11492 and 11493 are the feerates around which one to-be-CPFPed input, for
\* transactions of 772 weight units that paid 4632 sats, leaves a change of
\* CPFP_MIN_CHANGE + 1 and of CPFP_MIN_CHANGE
AddedFeerates == { 1000, 11492, 11493, 25000, 70000 }
\* The distances to 2^64 of the feerates at the top of the u64 range: 7000 is
\* the feerate of transactions of 772 weight units that paid 4632 sats
AddedFeeratesBelowMax == { 1, 7000 }

-----------------------------------------------------------------------------
(* Descriptors: the Unvault descriptor *)

MaxParticipants == 2

\* Is bit number b set in the 16-bit half h of a u32
BitSet(h, b) == (h \div (2 ^ b)) % 2 = 1

\* csv_value & SEQUENCE_LOCKTIME_DISABLE_FLAG (1 << 31) != 0, the u32 being
\* <<high half, low half>>
HasDisableFlag(csv) == BitSet(csv[1], 15)

\* csv_value & SEQUENCE_LOCKTIME_TYPE_FLAG (1 << 22) != 0
HasTypeFlag(csv) == BitSet(csv[1], 6)

\* csv_value & SEQUENCE_LOCKTIME_MASK (0x0000ffff)
MaskLocktime(csv) == <<0, csv[2]>>

\* unvault_desc_checks, were it to look at the two flags only
unvault_desc_checksFlagsOnly(stakeholders, managers, managers_threshold, cosigners, csv) ==
    IF Len(stakeholders) = 0 \/ Len(managers) = 0 \/ Len(cosigners) # Len(stakeholders)
      THEN "BadParameters"
    ELSE IF managers_threshold > Len(managers) THEN "BadParameters"
    ELSE IF HasDisableFlag(csv) \/ HasTypeFlag(csv) THEN "BadParameters"
    ELSE "Ok"

\* unvault_desc_checks!: "Ok" or the error it returns
unvault_desc_checks(stakeholders, managers, managers_threshold, cosigners, csv) ==
    IF Len(stakeholders) = 0 \/ Len(managers) = 0 \/ Len(cosigners) # Len(stakeholders)
      THEN "BadParameters"
    ELSE IF managers_threshold > Len(managers) THEN "BadParameters"
    ELSE IF \/ HasDisableFlag(csv)
            \/ HasTypeFlag(csv)
            \/ MaskLocktime(csv) # csv
      THEN "BadParameters"
    ELSE "Ok"

\* check_deriveable: every key is an xpub whose wildcard is not Wildcard::None
check_deriveable(keys) ==
    IF \E n \in 1..Len(keys) : keys[n] \in {"xpub_fixed", "single"}
      THEN "NonWildcardKeys"
      ELSE "Ok"

\* unvault_desc!: the policy is compiled by Miniscript, which accepts it or not
unvault_desc(compiles) == IF compiles THEN "Ok" ELSE "PolicyCompilation"

\* UnvaultDescriptor::new: "Ok" or the error
UnvaultDescriptorNew(stakeholders, managers, managers_threshold, cosigners, csv, compiles) ==
    LET checks == unvault_desc_checks(stakeholders, managers, managers_threshold,
                                      cosigners, csv)
    IN  IF checks # "Ok" THEN checks
        ELSE IF check_deriveable(stakeholders \o managers) # "Ok"
          THEN check_deriveable(stakeholders \o managers)
        ELSE unvault_desc(compiles)

\* DerivedUnvaultDescriptor::new: "Ok" or the error
DerivedUnvaultDescriptorNew(stakeholders, managers, managers_threshold, cosigners, csv, compiles) ==
    LET checks == unvault_desc_checks(stakeholders, managers, managers_threshold,
                                      cosigners, csv)
    IN  IF checks # "Ok" THEN checks ELSE unvault_desc(compiles)

\* The keys of a descriptor: xpubs with or without a wildcard and single keys;
\* those of a derived descriptor are derived keys
DescriptorPublicKeys == { "xpub_wildcard", "xpub_fixed", "single" }
DerivedPublicKeys == { "derived" }

\* CSV values: none, six blocks, the largest, 4194305 with the type flag, one
\* with the disable flag and one with bit 16 set
DescCsvValues == { <<0, 0>>, <<0, 6>>, <<0, 65535>>, <<64, 1>>, <<32768, 6>>, <<1, 0>> }

-----------------------------------------------------------------------------
(* Descriptors: policies, and what is read back from a descriptor *)

\* A policy, concrete or semantic: a key, a relative timelock, a threshold k
\* of the policies subs, a conjunction or a disjunction of subs (concrete
\* policies only), or one of the two constants
Policy(ty, k, subs, key, older) ==
    [ty |-> ty, k |-> k, subs |-> subs, key |-> key, older |-> older]
PolicyKey(key) == Policy("Key", 0, <<>>, key, <<0, 0>>)
PolicyOlder(older) == Policy("Older", 0, <<>>, "", older)
PolicyThreshold(k, subs) == Policy("Threshold", k, subs, "", <<0, 0>>)
PolicyAnd(subs) == Policy("And", 0, subs, "", <<0, 0>>)
PolicyOr(subs) == Policy("Or", 0, subs, "", <<0, 0>>)
PolicyTrivial == Policy("Trivial", 0, <<>>, "", <<0, 0>>)
PolicyUnsatisfiable == Policy("Unsatisfiable", 0, <<>>, "", <<0, 0>>)

\* A descriptor: wsh() of the Miniscript the policy ms compiled to
Wsh(ms) == [ms |-> ms]
NoDescriptor == Wsh(PolicyUnsatisfiable)

\* The policies of s, each a key
PolicyKeys(s) == [n \in 1..Len(s) |-> PolicyKey(s[n])]

\* The sequences of ss, one after the other
RECURSIVE Concat(_)
Concat(ss) == IF ss = <<>> THEN <<>> ELSE Head(ss) \o Concat(Tail(ss))

\* Every key of a policy, in order: what for_each_key, for_any_key and
\* iter_pk_pkh go through
RECURSIVE KeysOf(_)
KeysOf(policy) ==
    IF policy.ty = "Key" THEN << policy.key >>
    ELSE Concat([n \in 1..Len(policy.subs) |-> KeysOf(policy.subs[n])])

\* The CSV values of the Older fragments of a policy, in order
RECURSIVE OldersOf(_)
OldersOf(policy) ==
    IF policy.ty = "Older" THEN << policy.older >>
    ELSE Concat([n \in 1..Len(policy.subs) |-> OldersOf(policy.subs[n])])

\* deposit_desc!: the policy of N stakeholders out of N
deposit_policy(stakeholders) ==
    PolicyThreshold(Len(stakeholders), PolicyKeys(stakeholders))

\* cpfp_descriptor!: the policy of one manager out of N
cpfp_policy(managers) == PolicyThreshold(1, PolicyKeys(managers))

\* unvault_desc!: all the stakeholders, or managers_threshold managers with
\* all the cosigners once the relative timelock has passed
unvault_policy(stakeholders, managers, managers_threshold, cosigners, csv) ==
    LET spenders_thres == PolicyThreshold(managers_threshold, PolicyKeys(managers))
        stakeholders_thres == PolicyThreshold(Len(stakeholders), PolicyKeys(stakeholders))
        cosigners_thres == PolicyThreshold(Len(cosigners), PolicyKeys(cosigners))
        cosigners_and_csv == PolicyAnd(<< cosigners_thres, PolicyOlder(csv) >>)
        managers_and_cosigners_and_csv == PolicyAnd(<< spenders_thres, cosigners_and_csv >>)
    IN  PolicyOr(<< stakeholders_thres, managers_and_cosigners_and_csv >>)

\* Miniscript::lift: the semantic policy of a Miniscript, in which a
\* conjunction is a threshold of all and a disjunction a threshold of one
RECURSIVE lift(_)
lift(ms) ==
    LET subs == [n \in 1..Len(ms.subs) |-> lift(ms.subs[n])]
    IN  CASE ms.ty = "And" -> PolicyThreshold(Len(subs), subs)
          [] ms.ty = "Or" -> PolicyThreshold(1, subs)
          [] ms.ty = "Threshold" -> PolicyThreshold(ms.k, subs)
          [] OTHER -> ms

\* Policy::normalized: the constants are dropped, a conjunction within a
\* conjunction and a disjunction within a disjunction are flattened, and a
\* threshold left with one policy is that policy
RECURSIVE normalized(_)
normalized(policy) ==
    IF policy.ty # "Threshold" THEN policy
    ELSE
      LET subs == [n \in 1..Len(policy.subs) |-> normalized(policy.subs[n])]
          trivial_count == Cardinality({n \in 1..Len(subs) : subs[n].ty = "Trivial"})
          unsatisfied_count == Cardinality({n \in 1..Len(subs) : subs[n].ty = "Unsatisfiable"})
          n_subs == Len(subs) - unsatisfied_count - trivial_count
          m == IF policy.k >= trivial_count THEN policy.k - trivial_count ELSE 0
          is_and == m = n_subs
          is_or == m = 1
          kept(sub) ==
              IF sub.ty \in {"Trivial", "Unsatisfiable"} THEN <<>>
              ELSE IF sub.ty # "Threshold" THEN << sub >>
              ELSE IF is_and /\ ~is_or /\ sub.k = Len(sub.subs) THEN sub.subs
              ELSE IF ~is_and /\ is_or /\ sub.k = 1 THEN sub.subs
              ELSE << sub >>
          ret_subs == Concat([n \in 1..Len(subs) |-> kept(subs[n])])
      IN  IF m = 0 THEN PolicyTrivial
          ELSE IF m > Len(ret_subs) THEN PolicyUnsatisfiable
          ELSE IF Len(ret_subs) = 1 THEN ret_subs[1]
          ELSE IF is_and THEN PolicyThreshold(Len(ret_subs), ret_subs)
          ELSE IF is_or THEN PolicyThreshold(1, ret_subs)
          ELSE PolicyThreshold(m, ret_subs)

\* Policy::normalized, were it to leave nested conjunctions as they are
RECURSIVE normalizedNested(_)
normalizedNested(policy) ==
    IF policy.ty # "Threshold" THEN policy
    ELSE
      LET subs == [n \in 1..Len(policy.subs) |-> normalizedNested(policy.subs[n])]
      IN  IF Len(subs) = 1 THEN subs[1] ELSE PolicyThreshold(policy.k, subs)

\* The first index of s whose element satisfies Test, 0 if there is none
FirstIndex(s, Test(_)) ==
    IF \E n \in 1..Len(s) : Test(s[n])
      THEN CHOOSE n \in 1..Len(s) : Test(s[n]) /\ \A m \in 1..(n - 1) : ~Test(s[m])
      ELSE 0

\* unvault_descriptor_csv: [res, val], the value of the first Older fragment;
\* it panics when there is none
unvault_descriptor_csv(d) ==
    LET olders == OldersOf(d.ms)
    IN  IF olders = <<>> THEN [res |-> "panic", val |-> None]
        ELSE [res |-> "Ok", val |-> Some(olders[1])]

\* unvault_descriptor_managers_threshold over the normalized policy: [res,
\* val], val being the Option it returns; it panics on a policy that is not
\* a disjunction of two, or that has no conjunction with a timelock
ManagersThresholdOf(policy) ==
    LET IsMansBranch(sub) ==
            /\ sub.ty = "Threshold"
            /\ sub.k = Len(sub.subs)
            /\ \E n \in 1..Len(sub.subs) : sub.subs[n].ty = "Older"
        IsThreshold(sub) == sub.ty = "Threshold"
    IN  IF ~(policy.ty = "Threshold" /\ policy.k = 1) THEN [res |-> "panic", val |-> None]
        ELSE IF Len(policy.subs) # 2 THEN [res |-> "panic", val |-> None]
        ELSE
          LET at == FirstIndex(policy.subs, IsMansBranch)
          IN  IF at = 0 THEN [res |-> "panic", val |-> None]
              ELSE
                LET mans_branch == policy.subs[at].subs
                    thresh == FirstIndex(mans_branch, IsThreshold)
                IN  IF thresh = 0 THEN [res |-> "Ok", val |-> None]
                    ELSE [res |-> "Ok", val |-> Some(mans_branch[thresh].k)]

\* unvault_descriptor_managers_threshold, were the policy not flattened
unvault_descriptor_managers_thresholdNested(d) == ManagersThresholdOf(normalizedNested(lift(d.ms)))

\* unvault_descriptor_managers_threshold
unvault_descriptor_managers_threshold(d) == ManagersThresholdOf(normalized(lift(d.ms)))

-----------------------------------------------------------------------------
(* Descriptors: the constructors and parsers of the generic flavor, derive *)

\* A DescriptorPublicKey is a single key ("single") or an xpub, whose wildcard
\* is Wildcard::None ("xpub_fixed"), Unhardened ("xpub_wildcard") or Hardened
\* ("xpub_hardened"); a DerivedPublicKey is "derived"
IsXPub(key) == key \in {"xpub_fixed", "xpub_wildcard", "xpub_hardened"}

\* DescriptorPublicKey::is_deriveable
is_deriveable(key) == key \in {"xpub_wildcard", "xpub_hardened"}

\* deposit_desc_checks!
deposit_desc_checks(stakeholders) ==
    IF Len(stakeholders) < 2 THEN "BadParameters" ELSE "Ok"

\* deposit_desc!: the policy is compiled by Miniscript, which accepts it or not
deposit_desc(compiles) == IF compiles THEN "Ok" ELSE "PolicyCompilation"

\* cpfp_descriptor!: the policy is compiled by Miniscript, which accepts it or not
cpfp_descriptor(compiles) == IF compiles THEN "Ok" ELSE "PolicyCompilation"

\* The result of a constructor: the descriptor of the policy when res is Ok
DescriptorResult(res, policy) ==
    [res |-> res, descriptor |-> IF res = "Ok" THEN Wsh(policy) ELSE NoDescriptor]

\* DepositDescriptor::new: [res, descriptor]
DepositDescriptorNew(stakeholders, compiles) ==
    LET res == IF deposit_desc_checks(stakeholders) # "Ok"
                 THEN deposit_desc_checks(stakeholders)
               ELSE IF check_deriveable(stakeholders) # "Ok"
                 THEN check_deriveable(stakeholders)
               ELSE deposit_desc(compiles)
    IN  DescriptorResult(res, deposit_policy(stakeholders))

\* CpfpDescriptor::new: [res, descriptor]
CpfpDescriptorNew(managers, compiles) ==
    LET res == IF check_deriveable(managers) # "Ok" THEN check_deriveable(managers)
               ELSE cpfp_descriptor(compiles)
    IN  DescriptorResult(res, cpfp_policy(managers))

\* Display of a descriptor: the text of its Miniscript within wsh()
to_string(d) == [wsh |-> TRUE, text |-> d.ms]

\* A string that is not a descriptor
NotADescriptor == [wsh |-> FALSE, text |-> PolicyUnsatisfiable]

\* Descriptor::from_str: [res, descriptor]
DescriptorFromStr(str) ==
    IF str.wsh THEN [res |-> "Ok", descriptor |-> Wsh(str.text)]
    ELSE [res |-> "MiniscriptError", descriptor |-> NoDescriptor]

\* for_each_key and for_any_key of a descriptor
for_each_key(d, Pred(_)) == \A n \in 1..Len(KeysOf(d.ms)) : Pred(KeysOf(d.ms)[n])
for_any_key(d, Pred(_)) == \E n \in 1..Len(KeysOf(d.ms)) : Pred(KeysOf(d.ms)[n])

\* DepositDescriptor::from_str: [res, descriptor]
DepositDescriptorFromStr(str) ==
    LET parsed == DescriptorFromStr(str)
    IN  IF parsed.res # "Ok" THEN parsed
        ELSE IF ~for_each_key(parsed.descriptor, is_deriveable)
          THEN [res |-> "NonWildcardKeys", descriptor |-> NoDescriptor]
        ELSE parsed

\* CpfpDescriptor::from_str: [res, descriptor]
CpfpDescriptorFromStr(str) ==
    LET parsed == DescriptorFromStr(str)
    IN  IF parsed.res # "Ok" THEN parsed
        ELSE IF ~for_each_key(parsed.descriptor, is_deriveable)
          THEN [res |-> "NonWildcardKeys", descriptor |-> NoDescriptor]
        ELSE parsed

\* UnvaultDescriptor::from_str: [res, descriptor]; a single key passes wherever
\* it stands, an xpub must have a wildcard, and there must be an xpub
UnvaultDescriptorFromStr(str) ==
    LET parsed == DescriptorFromStr(str)
        SingleOrWildcard(key) == key = "single" \/ (IsXPub(key) /\ key # "xpub_fixed")
    IN  IF parsed.res # "Ok" THEN parsed
        ELSE IF ~for_each_key(parsed.descriptor, SingleOrWildcard)
          THEN [res |-> "NonWildcardKeys", descriptor |-> NoDescriptor]
        ELSE IF ~for_any_key(parsed.descriptor, IsXPub)
          THEN [res |-> "NoXpub", descriptor |-> NoDescriptor]
        ELSE parsed

\* translate_pk2 of a policy: every key becomes a derived key
RECURSIVE translate_pk2(_)
translate_pk2(policy) ==
    IF policy.ty = "Key" THEN PolicyKey("derived")
    ELSE [policy EXCEPT !.subs = [n \in 1..Len(policy.subs) |-> translate_pk2(policy.subs[n])]]

\* derive at an unhardened child number: [res, descriptor]; the public key of
\* a hardened child cannot be derived from an xpub, and the expect panics
derive(d, child_number) ==
    IF \E n \in 1..Len(KeysOf(d.ms)) : KeysOf(d.ms)[n] = "xpub_hardened"
      THEN [res |-> "panic", descriptor |-> NoDescriptor]
      ELSE [res |-> "Ok", descriptor |-> Wsh(translate_pk2(d.ms))]

\* The keys of a generic descriptor, and the child numbers to derive at
GenericKeys == { "xpub_wildcard", "xpub_hardened", "xpub_fixed", "single" }
ChildNumbers == { 0, 345678, 2147483647 }

-----------------------------------------------------------------------------
(* DerivedPublicKey: from_str and Display.  A string is the sequence of its *)
(* bytes.                                                                   *)

\* '[', ']', '/', '+', the two marks of a hardened index (' and h) and '0'
OpenBracket == 91
CloseBracket == 93
Slash == 47
Plus == 43
HardenedMarks == {39, 104}
Zero == 48

IsDecDigit(b) == b \in 48..57
IsHexDigit(b) == b \in 48..57 \/ b \in 97..102 \/ b \in 65..70
\* The lower case of a byte
Lower(b) == IF b \in 65..90 THEN b + 32 ELSE b
LowerAll(str) == [n \in 1..Len(str) |-> Lower(str[n])]

\* str without its leading bytes b, but for the last byte of str
RECURSIVE StripLeading(_, _)
StripLeading(str, b) ==
    IF Len(str) > 1 /\ str[1] = b THEN StripLeading(Tail(str), b) ELSE str

\* Is the decimal number a at most the decimal number b, neither having
\* leading zeros
RECURSIVE DecLe(_, _)
DecLe(a, b) ==
    IF Len(a) # Len(b) THEN Len(a) < Len(b)
    ELSE IF a = <<>> THEN TRUE
    ELSE IF a[1] # b[1] THEN a[1] < b[1]
    ELSE DecLe(Tail(a), Tail(b))

\* 2^31 - 1 and 2^32 - 1 in decimal
MaxNormalIndex == << 50, 49, 52, 55, 52, 56, 51, 54, 52, 55 >>
MaxU32 == << 52, 50, 57, 52, 57, 54, 55, 50, 57, 53 >>

\* u32::from_str: an optional '+', then decimal digits of a number that fits;
\* the Option of the number, as its digits without leading zeros
U32FromStr(str) ==
    LET digits == IF str # <<>> /\ str[1] = Plus THEN Tail(str) ELSE str
        number == StripLeading(digits, Zero)
    IN  IF digits = <<>> \/ \E n \in 1..Len(digits) : ~IsDecDigit(digits[n]) THEN None
        ELSE IF ~DecLe(number, MaxU32) THEN None
        ELSE Some(number)

\* bip32::ChildNumber::from_str: the Option of [hardened, index]; a trailing '
\* or h makes the index hardened, and the number must be below 2^31
ChildNumberFromStr(str) ==
    LET is_hardened == str # <<>> /\ str[Len(str)] \in HardenedMarks
        number == U32FromStr(IF is_hardened THEN SubSeq(str, 1, Len(str) - 1) ELSE str)
    IN  IF IsNone(number) \/ ~DecLe(Unwrap(number), MaxNormalIndex) THEN None
        ELSE Some([hardened |-> is_hardened, index |-> Unwrap(number)])

\* Display of a ChildNumber
ChildNumberDisplay(child_number) ==
    child_number.index \o (IF child_number.hardened THEN << 39 >> ELSE <<>>)

\* bip32::Fingerprint::from_str: eight hexadecimal digits of either case; the
\* Option of the fingerprint, as its lower case digits
FingerprintFromStr(str) ==
    IF Len(str) = 8 /\ \A n \in 1..8 : IsHexDigit(str[n]) THEN Some(LowerAll(str)) ELSE None

\* The compressed public keys there are: 02aa..a and 03aa..a, in 66
\* hexadecimal digits
PublicKeys == { [n \in 1..66 |-> IF n = 1 THEN 48 ELSE IF n = 2 THEN b ELSE 97] : b \in {50, 51} }

\* PublicKey::from_str: the hexadecimal digits, of either case, of a key
PublicKeyFromStr(str) ==
    IF LowerAll(str) \in PublicKeys /\ \A n \in 1..Len(str) : IsHexDigit(str[n])
      THEN Some(LowerAll(str))
      ELSE None

\* The position of the first byte b of str, 0 if there is none
IndexOf(str, b) ==
    IF \E n \in 1..Len(str) : str[n] = b
      THEN CHOOSE n \in 1..Len(str) : str[n] = b /\ \A m \in 1..(n - 1) : str[m] # b
      ELSE 0

\* str.split(']'): the Option of its first two parts
SplitTwo(str) ==
    LET first == IndexOf(str, CloseBracket)
        rest == SubSeq(str, first + 1, Len(str))
        second == IndexOf(rest, CloseBracket)
    IN  IF first = 0 THEN None
        ELSE Some(<< SubSeq(str, 1, first - 1),
                     IF second = 0 THEN rest ELSE SubSeq(rest, 1, second - 1) >>)

\* DerivedPublicKey::from_str: [res, val], val being the key when res is Ok
DerivedPublicKeyFromStr(str) ==
    LET err == [res |-> "DerivedKeyParsing", val |-> None]
        parts == IF str = <<>> THEN None ELSE SplitTwo(Tail(str))
    IN  IF Len(str) < 78 THEN err
        ELSE IF \E n \in 1..Len(str) : str[n] < 20 \/ str[n] > 127 THEN err
        ELSE IF str[1] # OpenBracket THEN err
        ELSE IF IsNone(parts) THEN err
        ELSE
          LET fg_deriv == Unwrap(parts)[1]
              key_str == Unwrap(parts)[2]
          IN  IF Len(fg_deriv) < 10 THEN err
              ELSE
                LET fingerprint == FingerprintFromStr(SubSeq(fg_deriv, 1, 8))
                    deriv_index == ChildNumberFromStr(SubSeq(fg_deriv, 10, Len(fg_deriv)))
                    key == PublicKeyFromStr(key_str)
                IN  IF IsNone(fingerprint) \/ IsNone(deriv_index) THEN err
                    ELSE IF Unwrap(deriv_index).hardened THEN err
                    ELSE IF IsNone(key) THEN err
                    ELSE [res |-> "Ok",
                          val |-> Some([key |-> Unwrap(key),
                                        origin |-> << Unwrap(fingerprint), Unwrap(deriv_index) >>])]

\* Display of a DerivedPublicKey: [fingerprint/index]key
DerivedPublicKeyDisplay(k) ==
    << OpenBracket >> \o k.origin[1] \o << Slash >> \o ChildNumberDisplay(k.origin[2])
        \o << CloseBracket >> \o k.key

\* The parts the strings given to from_str are made of.  Fingerprints:
\* aabbccdd, AABBCCDD, aabb, none, and one with a control byte
StrOpens == { << OpenBracket >>, <<>> }
StrFingerprints ==
    { << 97, 97, 98, 98, 99, 99, 100, 100 >>, << 65, 65, 66, 66, 67, 67, 68, 68 >>,
      << 97, 97, 98, 98 >>, <<>>, << 97, 97, 98, 98, 99, 99, 100, 25 >> }
\* '/' and 'X'
StrSeparators == { << Slash >>, << 88 >> }
\* 0, 42, 2147483647, 2147483648, 0', +1, 007, ffff and nothing
StrIndexes ==
    { << 48 >>, << 52, 50 >>, MaxNormalIndex, << 50, 49, 52, 55, 52, 56, 51, 54, 52, 56 >>,
      << 48, 39 >>, << 43, 49 >>, << 48, 48, 55 >>, << 102, 102, 102, 102 >>, <<>> }
StrCloses == { << CloseBracket >>, <<>> }
\* A key, the same in upper case, one with a byte that is not ASCII, and none
StrKeys ==
    PublicKeys
    \cup { [n \in 1..66 |-> IF n = 1 THEN 48 ELSE IF n = 2 THEN 50 ELSE 65],
           [n \in 1..66 |-> IF n = 1 THEN 48 ELSE IF n = 2 THEN 50 ELSE IF n = 3 THEN 200 ELSE 97],
           <<>> }
\* Nothing, "xy", "]xy", and "]" with a control byte
StrTrailers == { <<>>, << 120, 121 >>, << CloseBracket, 120, 121 >>, << CloseBracket, 25 >> }
DerivedKeyStrings ==
    { o \o f \o p \o i \o c \o k \o t :
        o \in StrOpens, f \in StrFingerprints, p \in StrSeparators, i \in StrIndexes,
        c \in StrCloses, k \in StrKeys, t \in StrTrailers }

\* The derived keys there are: the origin index is any ChildNumber
DerivedKeys ==
    { [key |-> k, origin |-> << f, [hardened |-> h, index |-> i] >>] :
        k \in PublicKeys, f \in { << 97, 97, 98, 98, 99, 99, 100, 100 >> },
        h \in BOOLEAN, i \in { << 48 >>, << 52, 50 >>, MaxNormalIndex } }

-----------------------------------------------------------------------------
(* Serialization: BIP-174 *)

\* The keys of S in the order of a BTreeMap
KeysInOrder(S) == SelectSeq([k \in 1..NKeys |-> k], LAMBDA k : k \in S)

\* Transaction::consensus_encode of an unsigned transaction: the fields in a
\* row, after the segwit marker and flag when there is no input
TxEncode(tx) ==
    << tx.version >>
    \o (IF Len(tx.input) = 0 THEN << 0, 1 >> ELSE <<>>)
    \o << Len(tx.input) >> \o tx.input
    \o << Len(tx.output) >> \o tx.output
    \o << tx.lock_time >>

\* Transaction::consensus_decode: a count of zero inputs is the segwit marker,
\* and the flag and the counts follow it
TxDecode(enc) ==
    LET at == IF enc[2] = 0 THEN 4 ELSE 2
        nin == enc[at]
        nout == enc[at + nin + 1]
    IN  [ version |-> enc[1],
          input |-> [n \in 1..nin |-> enc[at + n]],
          output |-> [n \in 1..nout |-> enc[at + nin + 1 + n]],
          lock_time |-> enc[at + nin + nout + 2] ]

\* One key-value pair of a PSBT map: the type, the key data and the value
Pair(ty, key, value) == [ty |-> ty, key |-> key, value |-> value]

\* The pairs of an Option field
OptionPairs(ty, field) == IF IsSome(field) THEN << Pair(ty, 0, field) >> ELSE <<>>

\* psbt::Input as a BIP-174 map: the fields that are set, by type
PsbtInEncode(input) ==
    OptionPairs("non_witness_utxo", input.non_witness_utxo)
    \o OptionPairs("witness_utxo", input.witness_utxo)
    \o [n \in 1..Len(KeysInOrder(DOMAIN input.partial_sigs)) |->
           LET k == KeysInOrder(DOMAIN input.partial_sigs)[n]
           IN  Pair("partial_sig", k, << input.partial_sigs[k] >>)]
    \o OptionPairs("sighash_type", input.sighash_type)
    \o OptionPairs("witness_script", input.witness_script)
    \o [n \in 1..Len(KeysInOrder(input.bip32_derivation)) |->
           Pair("bip32_derivation", KeysInOrder(input.bip32_derivation)[n], <<>>)]
    \o OptionPairs("final_script_witness", input.final_script_witness)

\* The pairs of type ty in a map
PairsOf(map, ty) == SelectSeq(map, LAMBDA e : e.ty = ty)

\* The Option field decoded from the pairs of type ty
OptionOf(map, ty) == IF Len(PairsOf(map, ty)) = 0 THEN None ELSE PairsOf(map, ty)[1].value

\* psbt::Input decoded from a BIP-174 map, starting from the default
PsbtInDecode(map) ==
    LET sigs == PairsOf(map, "partial_sig")
        paths == PairsOf(map, "bip32_derivation")
    IN  [ witness_utxo |-> OptionOf(map, "witness_utxo"),
          non_witness_utxo |-> OptionOf(map, "non_witness_utxo"),
          witness_script |-> OptionOf(map, "witness_script"),
          sighash_type |-> OptionOf(map, "sighash_type"),
          partial_sigs |-> [k \in {sigs[n].key : n \in 1..Len(sigs)} |->
                              (CHOOSE n \in 1..Len(sigs) : sigs[n].key = k).value[1]],
          bip32_derivation |-> {paths[n].key : n \in 1..Len(paths)},
          final_script_witness |-> OptionOf(map, "final_script_witness") ]

\* psbt::Output as a BIP-174 map, and back
PsbtOutEncode(output) ==
    [n \in 1..Len(KeysInOrder(output.bip32_derivation)) |->
        Pair("bip32_derivation", KeysInOrder(output.bip32_derivation)[n], <<>>)]
PsbtOutDecode(map) ==
    [bip32_derivation |-> {PairsOf(map, "bip32_derivation")[n].key :
                              n \in 1..Len(PairsOf(map, "bip32_derivation"))}]

\* RevaultTransaction::as_psbt_serialized: the global map with the unsigned
\* transaction, then one map for each input and each output
as_psbt_serialized(p) ==
    [ global |-> << Pair("unsigned_tx", 0, TxEncode(p.unsigned_tx)) >>,
      inputs |-> [n \in 1..Len(p.inputs) |-> PsbtInEncode(p.inputs[n])],
      outputs |-> [n \in 1..Len(p.outputs) |-> PsbtOutEncode(p.outputs[n])] ]

\* Decodable::consensus_decode of a PSBT
PsbtDecode(raw) ==
    [ unsigned_tx |-> TxDecode(PairsOf(raw.global, "unsigned_tx")[1].value),
      inputs |-> [n \in 1..Len(raw.inputs) |-> PsbtInDecode(raw.inputs[n])],
      outputs |-> [n \in 1..Len(raw.outputs) |-> PsbtOutDecode(raw.outputs[n])] ]

\* RevaultTransaction::from_psbt_serialized for the transaction type type:
\* [res, val], the decoded PSBT when its parser accepts it
from_psbt_serialized(type, raw) ==
    LET p == PsbtDecode(raw)
        res == IF type = "Unvault" THEN UnvaultFromRawPsbt(p) ELSE SpendFromRawPsbt(p)
    IN  [res |-> res, val |-> IF res = "Ok" THEN Some(p) ELSE None]

-----------------------------------------------------------------------------
(* The PSBTs handed to the parsers *)

MaxRawOuts == 3

\* What a PSBT input handed to a parser can look like
InputShapes ==
    { "unsigned", "signed", "missigned", "final", "final_invalid", "final_with_script",
      "final_p2wpkh", "no_script", "wrong_script", "anyonecanpay", "no_bip32",
      "no_utxo", "legacy_utxo", "p2wpkh", "heavy", "final_heavy" }

\* What an output handed to a parser can look like
OutputShapes == { "unvault", "cpfp", "cpfp_underpaid", "external" }

\* The PSBT input of shape shape at index i, spending an output of desc
RawInput(shape, i, desc) ==
    LET txo == DescTxOut(Sat(1000000),
                         IF shape \in {"heavy", "final_heavy"} THEN HeavyUnvaultDescriptor ELSE desc)
        unsigned == [PsbtInDefault EXCEPT
                        !.witness_script = Some(txo.witness_script),
                        !.bip32_derivation = txo.bip32_derivation,
                        !.sighash_type = Some(SIGHASH_ALL),
                        !.witness_utxo = Some(txo.txout)]
        signed == [unsigned EXCEPT !.partial_sigs =
                      [k \in Keys |-> RawSig(Sign(k, i, SIGHASH_ALL, 0), SIGHASH_ALL)]]
        missigned == [unsigned EXCEPT !.partial_sigs =
                      [k \in Keys |-> RawSig(Sign(k, i + 1, SIGHASH_ALL, 0), SIGHASH_ALL)]]
        feebump == Some([value |-> Sat(1000000), script_pubkey |-> P2wpkh("feebump")])
    IN  CASE shape = "unsigned" -> unsigned
          [] shape = "signed" -> signed
          [] shape = "missigned" -> missigned
          [] shape = "final" -> Seal(signed)
          [] shape = "final_invalid" -> Seal(missigned)
          [] shape = "final_with_script" ->
                [Seal(signed) EXCEPT !.witness_script = Some(txo.witness_script)]
          [] shape = "final_p2wpkh" -> [Seal(signed) EXCEPT !.witness_utxo = feebump]
          [] shape = "no_script" -> [unsigned EXCEPT !.witness_script = None]
          [] shape = "wrong_script" -> [unsigned EXCEPT !.witness_script = Some("cpfp")]
          [] shape = "anyonecanpay" ->
                [unsigned EXCEPT !.sighash_type = Some(SIGHASH_ALL_ANYONECANPAY)]
          [] shape = "no_bip32" -> [unsigned EXCEPT !.bip32_derivation = {}]
          [] shape = "no_utxo" -> [unsigned EXCEPT !.witness_utxo = None]
          [] shape = "legacy_utxo" -> [unsigned EXCEPT !.non_witness_utxo = Some("prevtx")]
          [] shape = "p2wpkh" ->
                [unsigned EXCEPT !.witness_utxo = feebump, !.witness_script = None]
          [] shape = "heavy" -> unsigned
          [] shape = "final_heavy" -> Seal(signed)

\* The output of shape shape: [txout, bip32_derivation]
RawOutput(shape) ==
    CASE shape = "unvault" ->
            [ txout |-> [value |-> Sat(900000), script_pubkey |-> P2wsh("unvault")],
              bip32_derivation |-> Keys ]
      [] shape = "cpfp" ->
            [ txout |-> [value |-> Sat(UNVAULT_CPFP_VALUE), script_pubkey |-> P2wsh("cpfp")],
              bip32_derivation |-> Keys ]
      [] shape = "cpfp_underpaid" ->
            [ txout |-> [value |-> Sat(UNVAULT_CPFP_VALUE - 1), script_pubkey |-> P2wsh("cpfp")],
              bip32_derivation |-> Keys ]
      [] shape = "external" ->
            [ txout |-> [value |-> Sat(50000), script_pubkey |-> P2wpkh("destination")],
              bip32_derivation |-> {} ]

\* The PSBT a BIP-174 decoder yields: as many PSBT inputs and outputs as the
\* unsigned transaction has
RawPsbt(version, ins, outs, desc) ==
    [ unsigned_tx |->
        [ version |-> version,
          lock_time |-> 0,
          input |-> [n \in 1..Len(ins) |-> [previous_output |-> n, sequence |-> RBF_SEQUENCE]],
          output |-> [n \in 1..Len(outs) |-> RawOutput(outs[n]).txout] ],
      inputs |-> [n \in 1..Len(ins) |-> RawInput(ins[n], n - 1, desc)],
      outputs |-> [n \in 1..Len(outs) |->
                     [PsbtOutDefault EXCEPT
                         !.bip32_derivation = RawOutput(outs[n]).bip32_derivation]] ]

\* [version, ins, outs]: every PSBT of at most MaxInputs inputs and MaxRawOuts outputs
RawPsbts ==
    [ version : {TX_VERSION - 1, TX_VERSION},
      ins : SeqUpTo(InputShapes, MaxInputs),
      outs : SeqUpTo(OutputShapes, MaxRawOuts) ]

-----------------------------------------------------------------------------
(* State *)

NoCall == [op |-> "none", args |-> <<>>]
\* The signature ret holds for the calls that take none
NoSig == [key |-> 0, msg |-> <<0, 0>>, nonce |-> 0]

\* The record of a call: the method, its arguments (input index, key and
\* signature, where it takes them), its result and the value returned with it
Ret(op, idx, key, res, val) ==
    [op |-> op, idx |-> idx, key |-> key, sig |-> NoSig, res |-> res, val |-> val]

Init ==
    /\ psbt = NoPsbt
    /\ kind = "none"
    /\ call = NoCall
    /\ consensus = TRUE
    /\ ret = Ret("none", 0, 0, "Ok", None)
    /\ descriptor = NoDescriptor

\* No constructor or parser was called yet
Fresh == kind = "none" /\ call = NoCall

\* What a constructor or parser that returned r = [res, psbt] leaves
Created(op, args, r, newkind, verdict) ==
    /\ psbt' = r.psbt
    /\ kind' = IF r.res = "Ok" THEN newkind ELSE "none"
    /\ call' = [op |-> op, args |-> args]
    /\ consensus' = verdict
    /\ ret' = Ret(op, 0, 0, r.res, None)
    /\ descriptor' = NoDescriptor

\* What a descriptor constructor or parser that returned r = [res, descriptor] leaves
CreatedDescriptor(op, args, r, newkind) ==
    /\ psbt' = NoPsbt
    /\ kind' = IF r.res = "Ok" THEN newkind ELSE "none"
    /\ call' = [op |-> op, args |-> args]
    /\ consensus' = TRUE
    /\ ret' = Ret(op, 0, 0, r.res, None)
    /\ descriptor' = r.descriptor

\* A call of UnvaultTransaction::new
CallUnvaultNew(values, weights, locks, verdicts) ==
    /\ Fresh
    /\ \E v \in values, w \in weights, lt \in locks, c \in verdicts :
           Created("UnvaultNew",
                   [deposit_value |-> v, max_sat_weight |-> w, lock_time |-> lt],
                   UnvaultNew(DepositTxIn(1, v, w), UnvaultDescriptor, CpfpDescriptor, lt),
                   "Unvault", c)

\* A call of SpendTransaction::new
CallSpendNew(inputs, txouts, changes, checks, verdicts) ==
    /\ Fresh
    /\ \E ins \in inputs, outs \in txouts, chg \in changes, chk \in checks, c \in verdicts :
           Created("SpendNew",
                   [unvault_inputs |-> ins, spend_txouts |-> outs, change_txout |-> chg,
                    insane_fee_check |-> chk],
                   SpendNew(ins, outs, chg, CpfpDescriptor, 0, chk),
                   "Spend", c)

\* A call of RevaultTransaction::fees
CallFees ==
    /\ kind # "none"
    /\ ret' = Ret("fees", 0, 0, Fees(psbt).res, Some(Fees(psbt).val))
    /\ UNCHANGED <<psbt, kind, call, consensus, descriptor>>

\* A call of UnvaultTransaction::from_raw_psbt
CallUnvaultFromRawPsbt(raws, verdicts) ==
    /\ Fresh
    /\ \E raw \in raws, c \in verdicts :
           LET p == RawPsbt(raw.version, raw.ins, raw.outs, DepositDescriptor(224))
               res == UnvaultFromRawPsbt(p)
           IN  Created("UnvaultFromRawPsbt", raw,
                       [res |-> res, psbt |-> IF res = "Ok" THEN p ELSE NoPsbt], "Unvault", c)

\* A call of SpendTransaction::from_raw_psbt
CallSpendFromRawPsbt(raws, verdicts) ==
    /\ Fresh
    /\ \E raw \in raws, c \in verdicts :
           LET p == RawPsbt(raw.version, raw.ins, raw.outs, UnvaultDescriptor)
               res == SpendFromRawPsbt(p)
           IN  Created("SpendFromRawPsbt", raw,
                       [res |-> res, psbt |-> IF res = "Ok" THEN p ELSE NoPsbt], "Spend", c)

\* A call of RevaultTransaction::signature_hash
CallSignatureHash ==
    /\ kind # "none"
    /\ \E i \in 0..MaxInputs, ty \in {SIGHASH_ALL, SIGHASH_ALL_ANYONECANPAY} :
          ret' = Ret("signature_hash", i, 0, signature_hash(psbt, i, ty).res,
                     signature_hash(psbt, i, ty).val)
    /\ UNCHANGED <<psbt, kind, call, consensus, descriptor>>

\* A call of RevaultTransaction::is_finalized
CallIsFinalized ==
    /\ kind # "none"
    /\ ret' = Ret("is_finalized", 0, 0, IF is_finalized(psbt) THEN "true" ELSE "false", None)
    /\ UNCHANGED <<psbt, kind, call, consensus, descriptor>>

\* A call of RevaultTransaction::add_signature
CallAddSignature ==
    /\ kind # "none"
    /\ \E i \in 0..MaxInputs, pk \in Keys, sig \in Signatures :
          LET r == add_signature(psbt, i, pk, sig) IN
          /\ psbt' = r.psbt
          /\ ret' = [Ret("add_signature", i, pk, r.res, r.val) EXCEPT !.sig = sig]
    /\ UNCHANGED <<kind, call, consensus, descriptor>>

\* A call of RevaultTransaction::finalize
CallFinalize ==
    /\ kind # "none"
    /\ psbt' = finalize(psbt, consensus).psbt
    /\ ret' = Ret("finalize", 0, 0, finalize(psbt, consensus).res, None)
    /\ UNCHANGED <<kind, call, consensus, descriptor>>

\* A call of RevaultTransaction::is_finalizable
CallIsFinalizable ==
    /\ kind # "none"
    /\ ret' = Ret("is_finalizable", 0, 0, IF is_finalizable(psbt) THEN "true" ELSE "false", None)
    /\ UNCHANGED <<psbt, kind, call, consensus, descriptor>>

\* A call of RevaultTransaction::is_valid
CallIsValid ==
    /\ kind # "none"
    /\ ret' = Ret("is_valid", 0, 0, IF is_valid(psbt, consensus) THEN "true" ELSE "false", None)
    /\ UNCHANGED <<psbt, kind, call, consensus, descriptor>>

\* A call of RevaultTransaction::verify_inputs
CallVerifyInputs ==
    /\ kind # "none"
    /\ ret' = Ret("verify_inputs", 0, 0, verify_inputs(psbt, consensus), None)
    /\ UNCHANGED <<psbt, kind, call, consensus, descriptor>>

\* from_psbt_serialized on what as_psbt_serialized returns for the transaction
CallRoundTrip ==
    /\ kind # "none"
    /\ LET r == from_psbt_serialized(kind, as_psbt_serialized(psbt))
       IN  ret' = Ret("round_trip", 0, 0, r.res, r.val)
    /\ UNCHANGED <<psbt, kind, call, consensus, descriptor>>

\* A call of UnvaultTransaction::spend_unvault_txin; ret.idx is the CSV value
\* of the descriptor it is given
CallSpendUnvaultTxin ==
    /\ kind = "Unvault"
    /\ \E csv \in CsvValues :
          LET r == spend_unvault_txin(psbt, DerivedUnvaultDescriptor(csv))
          IN  ret' = Ret("spend_unvault_txin", csv, 0, r.res, r.val)
    /\ UNCHANGED <<psbt, kind, call, consensus, descriptor>>

\* A call of UnvaultTransaction::revault_unvault_txin; ret.idx is the CSV value
\* of the descriptor it is given
CallRevaultUnvaultTxin ==
    /\ kind = "Unvault"
    /\ \E csv \in CsvValues :
          LET r == revault_unvault_txin(psbt, DerivedUnvaultDescriptor(csv))
          IN  ret' = Ret("revault_unvault_txin", csv, 0, r.res, r.val)
    /\ UNCHANGED <<psbt, kind, call, consensus, descriptor>>

-----------------------------------------------------------------------------
(* The constructors over all their arguments *)

UnvaultNewAny == CallUnvaultNew(DepositValues, DepositSatWeights, LockTimes, {TRUE})

SpendNewAny ==
    CallSpendNew(SeqUpTo(UnvaultInputs, MaxInputs), SeqUpTo(SpendTxOuts, MaxSpendOuts),
                 ChangeTxOuts, BOOLEAN, {TRUE})

NextNew ==
    \/ UnvaultNewAny
    \/ SpendNewAny
    \/ CallFees
    \/ CallSpendUnvaultTxin
    \/ CallRevaultUnvaultTxin
    \/ CallRoundTrip

SpecNew == Init /\ [][NextNew]_vars

-----------------------------------------------------------------------------
(* The parsers over all the PSBTs *)

UnvaultFromRawPsbtAny == CallUnvaultFromRawPsbt(RawPsbts, {TRUE})

SpendFromRawPsbtAny == CallSpendFromRawPsbt(RawPsbts, {TRUE})

NextParse ==
    \/ UnvaultFromRawPsbtAny
    \/ SpendFromRawPsbtAny
    \/ CallSignatureHash
    \/ CallIsFinalized

SpecParse == Init /\ [][NextParse]_vars

-----------------------------------------------------------------------------
(* The life of a transaction *)

\* The inputs of a Spend of m Unvault outputs
SpendOf(m) == [n \in 1..m |-> UnvaultTxIn(n, Sat(1000000), 144)]

\* The parsed PSBTs whose life is followed
Raw(ins, outs) == [version |-> TX_VERSION, ins |-> ins, outs |-> outs]

UnvaultNewOne == CallUnvaultNew({Sat(1000000)}, {224}, {0}, BOOLEAN)

SpendNewSome ==
    CallSpendNew({SpendOf(m) : m \in 1..MaxInputs},
                 {<< [value |-> Sat(300000), script_pubkey |-> P2wpkh("destination")] >>},
                 {None}, {TRUE}, {TRUE})

UnvaultFromRawPsbtSome ==
    CallUnvaultFromRawPsbt({Raw(<<s>>, <<"unvault", "cpfp">>) :
                               s \in {"missigned", "final", "final_invalid"}}, BOOLEAN)

SpendFromRawPsbtSome ==
    CallSpendFromRawPsbt({Raw(ins, <<"cpfp", "external">>) :
                             ins \in {<<"final", "final">>, <<"final", "final_invalid">>,
                                      <<"final", "unsigned">>}}, BOOLEAN)

Next ==
    \/ UnvaultNewOne
    \/ SpendNewSome
    \/ UnvaultFromRawPsbtSome
    \/ SpendFromRawPsbtSome
    \/ CallAddSignature
    \/ CallFinalize
    \/ CallIsFinalizable
    \/ CallIsFinalized
    \/ CallIsValid
    \/ CallVerifyInputs
    \/ CallSignatureHash

Spec == Init /\ [][Next]_vars

-----------------------------------------------------------------------------
(* CpfpTransaction::from_txins over its arguments *)

\* A call of CpfpTransaction::from_txins
CallFromTxins ==
    /\ Fresh
    /\ \E tbc \in TbcInputs, w \in TbcWeights, f \in TbcFees, a \in AddedFeerates,
          utxos \in AvailableUtxos :
          \E sorted \in SortedByValue(utxos) :
              Created("from_txins",
                      [to_be_cpfped |-> tbc, tbc_weight |-> w, tbc_fees |-> f,
                       added_feerate |-> a, available_utxos |-> utxos],
                      from_txins(tbc, w, f, a, [n \in 1..Len(utxos) |-> utxos[sorted[n]]]),
                      "Cpfp", TRUE)

NextCpfp == CallFromTxins \/ CallFees

SpecCpfp == Init /\ [][NextCpfp]_vars

\* A call of CpfpTransaction::from_txins with an added_feerate of
\* 2^64 - below_max, by a build with or without overflow checks
CallFromTxinsNearMax ==
    /\ Fresh
    /\ \E tbc \in TbcInputs, w \in TbcWeights, f \in TbcFees, b \in AddedFeeratesBelowMax,
          utxos \in AvailableUtxos, overflow_checks \in BOOLEAN :
          \E sorted \in SortedByValue(utxos) :
              Created("from_txins",
                      [to_be_cpfped |-> tbc, tbc_weight |-> w, tbc_fees |-> f,
                       added_feerate_below_max |-> b, available_utxos |-> utxos,
                       overflow_checks |-> overflow_checks],
                      from_txinsNearMax(tbc, w, f, b, [n \in 1..Len(utxos) |-> utxos[sorted[n]]],
                                        overflow_checks),
                      "Cpfp", TRUE)

NextCpfpU64 == CallFromTxins \/ CallFromTxinsNearMax \/ CallFees

\* from_txins over the feerates of SpecCpfp and those at the top of the range
SpecCpfpU64 == Init /\ [][NextCpfpU64]_vars

-----------------------------------------------------------------------------
(* The Unvault descriptors over their parameters *)

\* A call of UnvaultDescriptor::new
CallUnvaultDescriptorNew ==
    /\ Fresh
    /\ \E stk \in SeqUpTo(DescriptorPublicKeys, MaxParticipants),
          man \in SeqUpTo(DescriptorPublicKeys, MaxParticipants),
          cos \in SeqUpTo({"single"}, MaxParticipants),
          thr \in 0..(MaxParticipants + 1), csv \in DescCsvValues, compiles \in BOOLEAN :
          CreatedDescriptor("UnvaultDescriptorNew",
                  [stakeholders |-> stk, managers |-> man, managers_threshold |-> thr,
                   cosigners |-> cos, csv |-> csv, compiles |-> compiles],
                  DescriptorResult(UnvaultDescriptorNew(stk, man, thr, cos, csv, compiles),
                                   unvault_policy(stk, man, thr, cos, csv)),
                  "UnvaultDescriptor")

\* A call of DerivedUnvaultDescriptor::new
CallDerivedUnvaultDescriptorNew ==
    /\ Fresh
    /\ \E stk \in SeqUpTo(DerivedPublicKeys, MaxParticipants),
          man \in SeqUpTo(DerivedPublicKeys, MaxParticipants),
          cos \in SeqUpTo(DerivedPublicKeys, MaxParticipants),
          thr \in 0..(MaxParticipants + 1), csv \in DescCsvValues, compiles \in BOOLEAN :
          CreatedDescriptor("DerivedUnvaultDescriptorNew",
                  [stakeholders |-> stk, managers |-> man, managers_threshold |-> thr,
                   cosigners |-> cos, csv |-> csv, compiles |-> compiles],
                  DescriptorResult(DerivedUnvaultDescriptorNew(stk, man, thr, cos, csv, compiles),
                                   unvault_policy(stk, man, thr, cos, csv)),
                  "DerivedUnvaultDescriptor")

\* A call of DepositDescriptor::new
CallDepositDescriptorNew ==
    /\ Fresh
    /\ \E stk \in SeqUpTo(GenericKeys, MaxParticipants + 1), compiles \in BOOLEAN :
          CreatedDescriptor("DepositDescriptorNew",
                  [stakeholders |-> stk, managers |-> <<>>, compiles |-> compiles],
                  DepositDescriptorNew(stk, compiles), "DepositDescriptor")

\* A call of CpfpDescriptor::new
CallCpfpDescriptorNew ==
    /\ Fresh
    /\ \E man \in SeqUpTo(GenericKeys, MaxParticipants), compiles \in BOOLEAN :
          CreatedDescriptor("CpfpDescriptorNew",
                  [stakeholders |-> <<>>, managers |-> man, compiles |-> compiles],
                  CpfpDescriptorNew(man, compiles), "CpfpDescriptor")

\* The strings the parsers are given: the Display of a descriptor of the
\* policy, or a string that is no descriptor
DescriptorStrings(policy) == { to_string(Wsh(policy)), NotADescriptor }

\* A call of DepositDescriptor::from_str on the string of a deposit policy
CallDepositDescriptorFromStr ==
    /\ Fresh
    /\ \E stk \in SeqUpTo(GenericKeys, MaxParticipants) :
          \E str \in DescriptorStrings(deposit_policy(stk)) :
              CreatedDescriptor("DepositDescriptorFromStr",
                      [stakeholders |-> stk, managers |-> <<>>, str |-> str],
                      DepositDescriptorFromStr(str), "DepositDescriptor")

\* A call of CpfpDescriptor::from_str on the string of a CPFP policy
CallCpfpDescriptorFromStr ==
    /\ Fresh
    /\ \E man \in SeqUpTo(GenericKeys, MaxParticipants) :
          \E str \in DescriptorStrings(cpfp_policy(man)) :
              CreatedDescriptor("CpfpDescriptorFromStr",
                      [stakeholders |-> <<>>, managers |-> man, str |-> str],
                      CpfpDescriptorFromStr(str), "CpfpDescriptor")

\* A call of UnvaultDescriptor::from_str on the string of an Unvault policy
\* of all the managers, with as many cosigners as stakeholders
CallUnvaultDescriptorFromStr ==
    /\ Fresh
    /\ \E stk \in SeqUpTo(GenericKeys, MaxParticipants) \ {<<>>},
          man \in SeqUpTo(GenericKeys, MaxParticipants) \ {<<>>},
          cosigner \in {"single", "xpub_wildcard"} :
          LET cos == [n \in 1..Len(stk) |-> cosigner]
          IN  \E str \in DescriptorStrings(unvault_policy(stk, man, Len(man), cos, <<0, 6>>)) :
                  CreatedDescriptor("UnvaultDescriptorFromStr",
                          [stakeholders |-> stk, managers |-> man, cosigners |-> cos,
                           str |-> str],
                          UnvaultDescriptorFromStr(str), "UnvaultDescriptor")

\* A call of derive on a generic descriptor; ret.idx is the child number
CallDerive ==
    /\ kind \in {"DepositDescriptor", "CpfpDescriptor", "UnvaultDescriptor"}
    /\ \E child_number \in ChildNumbers :
          LET r == derive(descriptor, child_number)
          IN  /\ descriptor' = r.descriptor
              /\ kind' = IF r.res = "Ok" THEN "Derived" \o kind ELSE "none"
              /\ ret' = Ret("derive", child_number, 0, r.res, None)
    /\ UNCHANGED <<psbt, call, consensus>>

\* A call of csv_value on an Unvault descriptor, generic or derived
CallCsvValue ==
    /\ kind \in {"UnvaultDescriptor", "DerivedUnvaultDescriptor"}
    /\ LET r == unvault_descriptor_csv(descriptor)
       IN  ret' = Ret("csv_value", 0, 0, r.res, r.val)
    /\ UNCHANGED <<psbt, kind, call, consensus, descriptor>>

\* A call of managers_threshold on an Unvault descriptor, generic or derived
CallManagersThreshold ==
    /\ kind \in {"UnvaultDescriptor", "DerivedUnvaultDescriptor"}
    /\ LET r == unvault_descriptor_managers_threshold(descriptor)
       IN  ret' = Ret("managers_threshold", 0, 0, r.res, r.val)
    /\ UNCHANGED <<psbt, kind, call, consensus, descriptor>>

NextDesc ==
    \/ CallUnvaultDescriptorNew
    \/ CallDerivedUnvaultDescriptorNew
    \/ CallDepositDescriptorNew
    \/ CallCpfpDescriptorNew
    \/ CallDepositDescriptorFromStr
    \/ CallCpfpDescriptorFromStr
    \/ CallUnvaultDescriptorFromStr
    \/ CallDerive
    \/ CallCsvValue
    \/ CallManagersThreshold

SpecDesc == Init /\ [][NextDesc]_vars

-----------------------------------------------------------------------------
(* The derived public keys over their strings *)

\* A call of DerivedPublicKey::from_str
CallDerivedPublicKeyFromStr ==
    /\ Fresh
    /\ \E str \in DerivedKeyStrings :
          LET r == DerivedPublicKeyFromStr(str)
          IN  /\ call' = [op |-> "DerivedPublicKeyFromStr", args |-> [str |-> str]]
              /\ kind' = IF r.res = "Ok" THEN "DerivedPublicKey" ELSE "none"
              /\ ret' = Ret("DerivedPublicKeyFromStr", 0, 0, r.res, r.val)
    /\ UNCHANGED <<psbt, consensus, descriptor>>

\* A call of to_string on the key from_str returned
CallDerivedPublicKeyToString ==
    /\ kind = "DerivedPublicKey"
    /\ ret.op = "DerivedPublicKeyFromStr"
    /\ ret' = Ret("to_string", 0, 0, "Ok", Some(DerivedPublicKeyDisplay(Unwrap(ret.val))))
    /\ UNCHANGED <<psbt, kind, call, consensus, descriptor>>

\* A call of from_str on the string to_string gives of a key
CallDerivedPublicKeyRoundTrip ==
    /\ Fresh
    /\ \E k \in DerivedKeys :
          LET r == DerivedPublicKeyFromStr(DerivedPublicKeyDisplay(k))
          IN  /\ call' = [op |-> "DerivedPublicKeyRoundTrip", args |-> [key |-> k]]
              /\ kind' = IF r.res = "Ok" THEN "DerivedPublicKey" ELSE "none"
              /\ ret' = Ret("DerivedPublicKeyRoundTrip", 0, 0, r.res, r.val)
    /\ UNCHANGED <<psbt, consensus, descriptor>>

NextKey ==
    \/ CallDerivedPublicKeyFromStr
    \/ CallDerivedPublicKeyToString
    \/ CallDerivedPublicKeyRoundTrip

SpecKey == Init /\ [][NextKey]_vars

-----------------------------------------------------------------------------
(* The chain helpers over their arguments *)

\* The arguments of a chain helper
ChainArgs(outpoint, value, w, index, lt) ==
    [deposit_outpoint |-> outpoint, deposit_amount |-> value, max_sat_weight |-> w,
     derivation_index |-> index, lock_time |-> lt]

\* What a chain helper that returned r leaves: the Unvault is the transaction
\* held, and ret.val holds the chain
CreatedChain(op, args, r) ==
    /\ psbt' = r.unvault_tx
    /\ kind' = IF r.res = "Ok" THEN "Unvault" ELSE "none"
    /\ call' = [op |-> op, args |-> args]
    /\ consensus' = TRUE
    /\ ret' = Ret(op, 0, 0, r.res, Some(r))
    /\ descriptor' = NoDescriptor

\* A call of transaction_chain_manager
CallTransactionChainManager ==
    /\ Fresh
    /\ \E outpoint \in 1..MaxInputs, value \in ChainDepositValues, w \in {224, 1112},
          index \in DerivationIndexes, lt \in LockTimes :
          CreatedChain("transaction_chain_manager", ChainArgs(outpoint, value, w, index, lt),
                       transaction_chain_manager(outpoint, value, DepositDescriptor(w),
                           DerivedUnvaultDescriptor(144), CpfpDescriptor, index, lt))

\* A call of transaction_chain
CallTransactionChain ==
    /\ Fresh
    /\ \E outpoint \in 1..MaxInputs, value \in ChainDepositValues, w \in {224, 1112},
          index \in DerivationIndexes, lt \in LockTimes :
          CreatedChain("transaction_chain", ChainArgs(outpoint, value, w, index, lt),
                       transaction_chain(outpoint, value, DepositDescriptor(w),
                           DerivedUnvaultDescriptor(144), CpfpDescriptor, index,
                           EmergencyAddress, lt))

NextChain == CallTransactionChainManager \/ CallTransactionChain \/ CallFees

SpecChain == Init /\ [][NextChain]_vars

-----------------------------------------------------------------------------
(* What the claims speak of *)

\* The sum of the values of the outputs a transaction spends
InputsValue(p) ==
    AmtSum([n \in 1..Len(p.inputs) |-> Unwrap(p.inputs[n].witness_utxo).value])

\* The sum of the values of all the outputs of a transaction
OutputsValue(p) ==
    AmtSum([n \in 1..Len(p.unsigned_tx.output) |-> p.unsigned_tx.output[n].value])

\* The outputs of a transaction paying to the witness script ws
OutputsTo(p, ws) ==
    {n \in 1..Len(p.unsigned_tx.output) : p.unsigned_tx.output[n].script_pubkey = P2wsh(ws)}

\* The arguments of the call of UnvaultTransaction::new that was made
NewDeposit == call.args.deposit_value
NewSatWeight == call.args.max_sat_weight

-----------------------------------------------------------------------------
(* Claims on the constructors, checked under SpecNew *)

\* C1: every Spend that SpendTransaction::new returned has inputs worth at
\* least the sum of all its outputs, the CPFP output included, so that fees()
\* does not panic and outputs + fees = inputs. The code leaves the CPFP output
\* out of the sum it compares to the inputs: this is violated.
C1_SpendInputsCoverAllOutputs ==
    kind = "Spend" =>
        /\ AmtLe(OutputsValue(psbt), InputsValue(psbt))
        /\ ret.op = "fees" =>
              /\ ret.res = "Ok"
              /\ AmtAdd(OutputsValue(psbt), Unwrap(ret.val)) = InputsValue(psbt)

\* C8: when the fees, 6 x (weight + deposit's max satisfaction weight), do not
\* exceed INSANE_FEES, UnvaultTransaction::new returns Dust exactly when
\* fees + 30,000 + 200,000 > deposit value, and the unvault output of every
\* Unvault it returns is worth at least DUST_LIMIT.
C8_UnvaultDustBoundary ==
    (call.op = "UnvaultNew" /\ FeesOf(NewSatWeight) <= INSANE_FEES) =>
        /\ (kind = "none" /\ ret.res = "Dust")
              <=> AmtLess(NewDeposit, Sat(FeesOf(NewSatWeight) + 30000 + 200000))
        /\ kind = "Unvault" =>
              /\ OutputsTo(psbt, "unvault") # {}
              /\ \A n \in OutputsTo(psbt, "unvault") :
                    AmtLe(Sat(DUST_LIMIT), psbt.unsigned_tx.output[n].value)

\* C8 witness: the deposit of exactly fees + 230,000 sats (234,632 with a
\* satisfaction weight of 224) was accepted.
C8_Witness ==
    /\ call.op = "UnvaultNew"
    /\ kind = "Unvault"
    /\ NewSatWeight = 224
    /\ NewDeposit = Sat(234632)
    /\ psbt.unsigned_tx.output[1].value = Sat(DUST_LIMIT)

\* C9: every Unvault that new returned has one CPFP output, worth 30,000 sats,
\* an unvault output worth deposit - fees - 30,000 and at most MAX_MONEY, and
\* fees() = 6 x (weight of the built transaction + max satisfaction weight);
\* new returns InsaneAmounts exactly when that value would exceed MAX_MONEY,
\* and InsaneFees whenever the fees exceed 20,000,000, whatever the deposit.
C9_UnvaultValues ==
    call.op = "UnvaultNew" =>
        LET fees == 6 * (548 + NewSatWeight)
            value == AmtSub(AmtSub(NewDeposit, Sat(fees)), Sat(30000))
            enough == AmtLe(Sat(fees + 230000), NewDeposit)
        IN
        /\ fees > 20000000 <=> (kind = "none" /\ ret.res = "InsaneFees")
        /\ (fees <= 20000000 /\ enough /\ AmtLess(MAX_MONEY, value))
              <=> (kind = "none" /\ ret.res = "InsaneAmounts")
        /\ kind = "Unvault" =>
              /\ Cardinality(OutputsTo(psbt, "cpfp")) = 1
              /\ \A n \in OutputsTo(psbt, "cpfp") :
                    psbt.unsigned_tx.output[n].value = Sat(30000)
              /\ Cardinality(OutputsTo(psbt, "unvault")) = 1
              /\ \A n \in OutputsTo(psbt, "unvault") :
                    /\ psbt.unsigned_tx.output[n].value = value
                    /\ AmtLe(value, MAX_MONEY)
              /\ Fees(psbt).res = "Ok"
              /\ Fees(psbt).val = Sat(6 * (get_weight(psbt.unsigned_tx) + NewSatWeight))
              /\ ret.op = "fees" => (ret.res = "Ok" /\ ret.val = Some(Sat(fees)))

\* C9 witness: fees() was called on an Unvault whose unvault output is worth
\* exactly MAX_MONEY.
C9_Witness ==
    /\ call.op = "UnvaultNew"
    /\ kind = "Unvault"
    /\ ret.op = "fees"
    /\ psbt.unsigned_tx.output[1].value = MAX_MONEY
    /\ psbt.unsigned_tx.output[2].value = Sat(30000)

\* C11: on an Unvault and its descriptor, spend_unvault_txin returns a txin
\* whose nSequence is the descriptor's CSV value and revault_unvault_txin one
\* whose nSequence is 0xfffffffd; both reference the txid of the unsigned
\* transaction and the index of the output paying to the descriptor's script,
\* and carry that output's value.
C11_UnvaultTxinGetters ==
    ret.op \in {"spend_unvault_txin", "revault_unvault_txin"} =>
        /\ ret.res = "Ok"
        /\ Cardinality(OutputsTo(psbt, "unvault")) = 1
        /\ \A n \in OutputsTo(psbt, "unvault") :
              LET txin == Unwrap(ret.val)
                  tx == psbt.unsigned_tx
              IN
              /\ txin.sequence = IF ret.op = "spend_unvault_txin"
                                   THEN <<0, ret.idx>> ELSE <<65535, 65533>>
              /\ txin.outpoint.txid = <<"txid", tx.version, tx.lock_time, tx.input, tx.output>>
              /\ txin.outpoint.vout = n - 1
              /\ txin.txout.txout = tx.output[n]
              /\ txin.txout.witness_script = "unvault"

\* C11 witness: spend_unvault_txin returned a txin of nSequence 144 on the
\* first output of an Unvault.
C11_Witness ==
    /\ ret.op = "spend_unvault_txin"
    /\ ret.res = "Ok"
    /\ ret.idx = 144
    /\ Unwrap(ret.val).sequence = <<0, 144>>
    /\ Unwrap(ret.val).outpoint.vout = 0
    /\ Unwrap(ret.val).txout.txout.value = psbt.unsigned_tx.output[1].value

\* C12: every SpendTransaction that new returns spends at least one Unvault
\* input and has at least one destination output besides the CPFP output at
\* index 0: new given no input or no destination does not return a Spend.
C12_SpendNeverEmpty ==
    (call.op = "SpendNew" /\ kind = "Spend") =>
        /\ Len(call.args.unvault_inputs) >= 1
        /\ Len(call.args.spend_txouts) >= 1
        /\ Len(psbt.unsigned_tx.input) >= 1
        /\ Len(psbt.unsigned_tx.output) >= 2

\* What SpendTransaction::new was called with, as the claims name it
NewIns == call.args.unvault_inputs
NewTxOuts ==
    call.args.spend_txouts
    \o (IF IsSome(call.args.change_txout) THEN << Unwrap(call.args.change_txout).txout >> ELSE <<>>)
NewCpfpTxout ==
    SpendCpfpTxout(NewIns, call.args.spend_txouts, call.args.change_txout, CpfpDescriptor, 0).txout
NewDuplicated == \E i, j \in 1..Len(NewIns) : i # j /\ NewIns[i].outpoint = NewIns[j].outpoint
NewDust ==
    \E i \in 1..Len(NewTxOuts) :
        AmtLess(NewTxOuts[i].value, Sat(IF NewTxOuts[i].script_pubkey.ty = "p2wsh" THEN 330 ELSE 294))
NewWeight ==
    get_weight([version |-> 2, lock_time |-> 0,
                input |-> [i \in 1..Len(NewIns) |-> unsigned_txin(NewIns[i])],
                output |-> << NewCpfpTxout >> \o NewTxOuts])
    + IntSum([i \in 1..Len(NewIns) |-> NewIns[i].txout.max_sat_weight])
NewValueIn == AmtSum([i \in 1..Len(NewIns) |-> NewIns[i].txout.txout.value])
NewValueOut == AmtSum([i \in 1..(Len(NewTxOuts) + 1) |-> (<< NewCpfpTxout >> \o NewTxOuts)[i].value])

\* C13: SpendTransaction::new returns DuplicatedInput whenever two inputs share
\* an outpoint, Dust whenever a destination or change output is below its
\* script's dust threshold, TooLarge whenever the weight with the satisfactions
\* exceeds 400,000, InsaneAmounts whenever the output values sum to more than
\* MAX_MONEY, each when no earlier check failed; InsaneFees is returned only
\* when insane_fee_check is true and whenever the fees then exceed 20,000,000,
\* and a fee above 20,000,000 is accepted when insane_fee_check is false.
C13_SpendNewErrors ==
    call.op = "SpendNew" =>
        /\ NewDuplicated => ret.res = "DuplicatedInput"
        /\ (~NewDuplicated /\ NewDust) => ret.res = "Dust"
        /\ (~NewDuplicated /\ ~NewDust /\ NewWeight > 400000) => ret.res = "TooLarge"
        /\ (~NewDuplicated /\ ~NewDust /\ NewWeight <= 400000 /\ AmtLess(MAX_MONEY, NewValueOut))
              => ret.res = "InsaneAmounts"
        /\ ret.res = "InsaneFees" => call.args.insane_fee_check
        /\ ( /\ ~NewDuplicated /\ ~NewDust /\ NewWeight <= 400000
             /\ AmtLe(NewValueOut, MAX_MONEY)
             /\ AmtLess(AmtAdd(NewValueOut, Sat(20000000)), NewValueIn) )
              => ret.res = IF call.args.insane_fee_check THEN "InsaneFees" ELSE "Ok"

\* C14: the output at index 0 of every SpendTransaction that new returns pays
\* to the CPFP script, and its value is 16 times the weight of the transaction
\* that was built (CPFP output included) plus the maximum satisfaction weights
\* of its inputs.
C14_SpendCpfpValue ==
    (call.op = "SpendNew" /\ kind = "Spend") =>
        /\ psbt.unsigned_tx.output[1].script_pubkey = [ty |-> "p2wsh", prog |-> <<"sha256", "cpfp">>]
        /\ psbt.outputs[1].bip32_derivation = Keys
        /\ psbt.unsigned_tx.output[1].value =
              Sat(16 * ( get_weight(psbt.unsigned_tx)
                         + IntSum([i \in 1..Len(NewIns) |-> NewIns[i].txout.max_sat_weight]) ))

\* C14 witness: a Spend of two Unvault inputs, a P2WPKH destination and a change
\* output, of weight 836 + 2 x 546, carries a CPFP output of 16 x 1928 sats.
C14_Witness ==
    /\ call.op = "SpendNew"
    /\ kind = "Spend"
    /\ Len(psbt.unsigned_tx.input) = 2
    /\ Len(psbt.unsigned_tx.output) = 3
    /\ IsSome(call.args.change_txout)
    /\ psbt.unsigned_tx.output[2].script_pubkey.ty = "p2wpkh"
    /\ \A i \in 1..2 : NewIns[i].txout.max_sat_weight = 546
    /\ get_weight(psbt.unsigned_tx) = 836
    /\ psbt.unsigned_tx.output[1].value = Sat(30848)

\* C16: for every transaction that UnvaultTransaction::new or
\* SpendTransaction::new returned, from_psbt_serialized on its
\* as_psbt_serialized succeeds and returns a transaction equal to it: whatever
\* a constructor builds passes the checks of its parser.
C16_RoundTrip ==
    (ret.op = "round_trip" /\ call.op \in {"UnvaultNew", "SpendNew"}) =>
        /\ ret.res = "Ok"
        /\ ret.val = << psbt >>

-----------------------------------------------------------------------------
(* Claims on signing and finalization, checked under Spec *)

\* C2: once is_finalized() is true, every add_signature call on an in-bounds
\* input is rejected with AlreadyFinalized and leaves the PSBT unchanged. The
\* finalizer seals the inputs one after the other and stops at the first it
\* cannot satisfy: the inputs after it still take signatures. This is violated.
C2_NoSignatureOnceFinalized ==
    [][ (is_finalized(psbt) /\ ret'.op = "add_signature" /\ InBounds(psbt, ret'.idx))
            => (ret'.res = "AlreadyFinalized" /\ psbt' = psbt) ]_vars

\* C3: finalize runs the Miniscript finalizer, then the consensus check on what
\* the finalizer left: when the finalizer succeeds and the consensus check
\* rejects an input, finalize returns an error and the PSBT stays as the
\* finalizer left it, every input sealed and is_finalized() true.
C3_FinalizeKeepsMutation ==
    [][ ret'.op = "finalize" =>
          LET sealed == MiniscriptFinalize(psbt) IN
          /\ ~sealed.ok => ret'.res = "TransactionFinalisation"
          /\ (sealed.ok /\ \E n \in 1..Len(psbt.inputs) : ~ConsensusVerify(sealed.psbt, n, consensus))
                => /\ ret'.res = "Verification"
                   /\ psbt' = sealed.psbt
                   /\ psbt' # psbt
                   /\ is_finalized(psbt')
                   /\ \A n \in 1..Len(psbt'.inputs) : IsSome(psbt'.inputs[n].final_script_witness)
          /\ ret'.res = "Ok" <=>
                (sealed.ok /\ \A n \in 1..Len(psbt.inputs) : ConsensusVerify(sealed.psbt, n, consensus))
      ]_vars

\* C3 witness: finalize failed on the consensus check alone and left a
\* finalized transaction.
C3_Witness ==
    /\ ret.op = "finalize"
    /\ ret.res = "Verification"
    /\ ~consensus
    /\ is_finalized(psbt)
    /\ interpreter_check(psbt)

\* C4, as stated: is_finalizable returns true exactly when finalize on a copy
\* would return Ok. finalize also runs the consensus check, is_finalizable does
\* not: this is violated.
C4_FinalizableIffFinalizeOk ==
    ret.op = "is_finalizable" => (ret.res = "true" <=> finalize(psbt, consensus).res = "Ok")

\* C4, amended: is_finalizable returns true exactly when the Miniscript
\* finalizer succeeds on a copy, which it does whenever finalize on a copy
\* would return Ok, and it does not modify the transaction.
C4_FinalizableIffFinalizerOk ==
    [][ ret'.op = "is_finalizable" =>
          /\ psbt' = psbt
          /\ ret'.res = "true" <=> MiniscriptFinalize(psbt).ok
          /\ finalize(psbt, consensus).res = "Ok" => ret'.res = "true"
          /\ ret'.res = "true" =>
                \A n \in 1..Len(psbt.inputs), k \in Keys :
                    /\ IsNone(psbt.inputs[n].final_script_witness)
                    /\ k \in DOMAIN psbt.inputs[n].partial_sigs
                    /\ RawSigVerifies(psbt.inputs[n].partial_sigs[k], k, n - 1)
      ]_vars

\* C4 witness: is_finalizable returned true on a transaction that finalize
\* would seal and then refuse on the consensus check.
C4_Witness ==
    /\ ret.op = "is_finalizable"
    /\ ret.res = "true"
    /\ ~is_finalized(psbt)
    /\ finalize(psbt, consensus).res = "Verification"

\* C5: a successful add_signature(i, pk, sig) binds pk, in the partial_sigs of
\* input i, to der(sig) followed by the byte of the input's sighash type,
\* returns what pk was bound to before, if anything, and changes nothing else.
C5_AddSignatureEffect ==
    [][ (ret'.op = "add_signature" /\ ret'.res = "Ok") =>
          LET n == ret'.idx + 1
              before == psbt.inputs[n].partial_sigs
              after == psbt'.inputs[n].partial_sigs
          IN
          /\ IsNone(psbt.inputs[n].final_script_witness)
          /\ DOMAIN after = (DOMAIN before) \cup {ret'.key}
          /\ after[ret'.key] =
                <<48, ret'.sig.key, ret'.sig.msg[1], ret'.sig.msg[2], ret'.sig.nonce,
                  Unwrap(psbt.inputs[n].sighash_type) % 256>>
          /\ \A k \in (DOMAIN before) \ {ret'.key} : after[k] = before[k]
          /\ ret'.val = IF ret'.key \in DOMAIN before THEN Some(before[ret'.key]) ELSE None
          /\ psbt'.unsigned_tx = psbt.unsigned_tx
          /\ psbt'.outputs = psbt.outputs
          /\ \A m \in 1..Len(psbt.inputs) : m # n => psbt'.inputs[m] = psbt.inputs[m]
          /\ [psbt'.inputs[n] EXCEPT !.partial_sigs = before] = psbt.inputs[n]
      ]_vars

\* C5 witness: a key signed an input again, with another signature, and got
\* the bytes of its first signature back.
C5_Witness ==
    /\ ret.op = "add_signature"
    /\ ret.res = "Ok"
    /\ IsSome(ret.val)
    /\ Unwrap(ret.val) # psbt.inputs[ret.idx + 1].partial_sigs[ret.key]
    /\ Unwrap(ret.val)[2] = ret.key

\* C6: add_signature fails with OutOfBounds on an index that is not one of an
\* input, else with AlreadyFinalized on an input that carries a final witness,
\* else with InvalidSignature on a signature that does not verify against the
\* digest under the input's sighash type; none of these changes the PSBT.
C6_AddSignatureErrors ==
    [][ ret'.op = "add_signature" =>
          LET i == ret'.idx
              final == IsSome(InputAt(psbt, i).final_script_witness)
              digest == <<i, Unwrap(InputAt(psbt, i).sighash_type)>>
          IN
          /\ ~(i < Len(psbt.inputs)) => ret'.res = "OutOfBounds"
          /\ (i < Len(psbt.inputs) /\ final) => ret'.res = "AlreadyFinalized"
          /\ (i < Len(psbt.inputs) /\ ~final /\ ~(ret'.sig.key = ret'.key /\ ret'.sig.msg = digest))
                => ret'.res = "InvalidSignature"
          /\ ret'.res \in {"OutOfBounds", "AlreadyFinalized", "InvalidSignature"} => psbt' = psbt
          /\ ret'.res \in {"OutOfBounds", "AlreadyFinalized", "InvalidSignature", "Ok"}
      ]_vars

\* C6 witness: a signature that does not verify was refused as AlreadyFinalized
\* on a final input, next to an input that is not final.
C6_Witness ==
    /\ ret.op = "add_signature"
    /\ ret.res = "AlreadyFinalized"
    /\ ret.sig.key # ret.key
    /\ \E n \in 1..Len(psbt.inputs) : IsNone(psbt.inputs[n].final_script_witness)

-----------------------------------------------------------------------------
(* Claims on the parsers, checked under SpecParse *)

C10_UnvaultShape ==
    kind = "Unvault" =>
        /\ Len(psbt.unsigned_tx.input) = 1
        /\ Len(psbt.inputs) = 1
        /\ is_v0_p2wsh(Unwrap(psbt.inputs[1].witness_utxo).script_pubkey)
        /\ Len(psbt.unsigned_tx.output) = 2
        /\ \E n \in OutputsTo(psbt, "cpfp") :
              psbt.unsigned_tx.output[n].value = Sat(UNVAULT_CPFP_VALUE)

\* The PSBT SpendTransaction::from_raw_psbt was called on
ParsedSpend == RawPsbt(call.args.version, call.args.ins, call.args.outs, UnvaultDescriptor)

\* The errors SpendTransaction::from_raw_psbt has for an input
SpendInputErrors ==
    {"InvalidInputField", "InvalidSighashType", "MissingInWitnessScript", "InvalidInWitnessScript"}

\* What the claim asks of a non-final input
NonFinalInputIsSound(input) ==
    /\ Unwrap(input.witness_utxo).script_pubkey.ty = "p2wsh"
    /\ input.sighash_type = <<SIGHASH_ALL>>
    /\ IsSome(input.witness_script)
    /\ Unwrap(input.witness_utxo).script_pubkey.prog = <<"sha256", Unwrap(input.witness_script)>>
    /\ input.bip32_derivation # {}

\* The witness script an input is satisfied with: its witness_script, and the
\* script its witness ends with once it is final
InputScript(input) ==
    IF IsSome(input.final_script_witness) THEN Unwrap(input.final_script_witness).script
    ELSE Unwrap(input.witness_script)

\* The weight of p with every input satisfied at its maximum
MaxSatisfiedWeight(p) ==
    get_weight(p.unsigned_tx)
    + IntSum([n \in 1..Len(p.inputs) |-> ScriptMaxSatWeight(InputScript(p.inputs[n]))])

\* C15: SpendTransaction::from_raw_psbt accepts a PSBT only if it has at least
\* one input, every non-final input spends a P2WSH output with sighash type All,
\* the matching witness script and bip32 derivations, one or two outputs carry
\* bip32 derivations, and its weight with the maximum satisfaction weight is at
\* most 400,000; on a PSBT that passes the common checks each violation yields
\* its error. A final input adds nothing to the weight the parser bounds: this
\* is violated.
C15_SpendParserAccepts ==
    call.op = "SpendFromRawPsbt" =>
        LET p == ParsedSpend
            nonfinal == {n \in 1..Len(p.inputs) : IsNone(p.inputs[n].final_script_witness)}
            derivations == Cardinality({n \in 1..Len(p.outputs) : p.outputs[n].bip32_derivation # {}})
            common == psbt_common_sanity_checks(p) = "Ok"
            sound == \A n \in nonfinal : NonFinalInputIsSound(p.inputs[n])
        IN
        /\ ret.res = "Ok" =>
              /\ Len(p.inputs) >= 1
              /\ sound
              /\ derivations \in {1, 2}
              /\ MaxSatisfiedWeight(p) <= 400000
        /\ (common /\ Len(p.inputs) = 0) => ret.res = "InvalidInputCount"
        /\ (common /\ ~sound) => ret.res \in SpendInputErrors
        /\ ret.res = "InvalidSighashType" =>
              \E n \in nonfinal : p.inputs[n].sighash_type # <<SIGHASH_ALL>>
        /\ ret.res = "MissingInWitnessScript" =>
              \E n \in nonfinal : IsNone(p.inputs[n].witness_script)
        /\ ret.res = "InvalidInWitnessScript" =>
              \E n \in nonfinal :
                  /\ IsSome(p.inputs[n].witness_script)
                  /\ Unwrap(p.inputs[n].witness_utxo).script_pubkey.prog
                        # <<"sha256", Unwrap(p.inputs[n].witness_script)>>
        /\ (ret.res = "InvalidCountOuputWithDerivations") => derivations \notin {1, 2}
        /\ (common /\ Len(p.inputs) >= 1 /\ ret.res \notin SpendInputErrors /\ derivations \notin {1, 2})
              => ret.res = "InvalidCountOuputWithDerivations"
        /\ ret.res = "TransactionTooLarge" => MaxSatisfiedWeight(p) > 400000

-----------------------------------------------------------------------------
(* Claims on the CPFP transaction, checked under SpecCpfp *)

\* The feerate from_txins was asked for, in sats per 1000 weight units
CpfpTargetFeerate ==
    (1000 * (call.args.tbc_fees + call.args.tbc_weight)) \div call.args.tbc_weight
    + call.args.added_feerate

\* The fees of the package: those of the transactions to bump and those of the
\* CPFP transaction that was returned
CpfpPackageFees ==
    call.args.tbc_fees + as_sat(InputsValue(psbt)) - as_sat(OutputsValue(psbt))

\* The weight of the package: the transactions to bump, the CPFP transaction
\* and the largest satisfactions of its inputs
CpfpPackageWeight ==
    call.args.tbc_weight + get_weight(psbt.unsigned_tx)
    + IntSum([n \in 1..Len(psbt.inputs) |->
                ScriptMaxSatWeight(Unwrap(psbt.inputs[n].witness_script))])

UtxosAt(utxos, S) ==
    LET at == SelectSeq([n \in 1..Len(utxos) |-> n], LAMBDA n : n \in S)
    IN  [n \in 1..Len(at) |-> utxos[at[n]]]

\* Does a CPFP transaction spending txins reach the target feerate of the call,
\* with a change output or with an OP_RETURN output
ReachesTarget(txins) ==
    LET inputs_sum == IntSum([n \in 1..Len(txins) |-> as_sat(txins[n].txout.txout.value)])
        sat_weight == IntSum([n \in 1..Len(txins) |-> txins[n].txout.max_sat_weight])
        weight(spk) ==
            get_weight([version |-> 2, lock_time |-> 0,
                        input |-> [n \in 1..Len(txins) |->
                                     [previous_output |-> txins[n].outpoint,
                                      sequence |-> <<65535, 65533>>]],
                        output |-> << [script_pubkey |-> spk, value |-> Sat(0)] >>])
        needed(spk) ==
            (CpfpTargetFeerate * (weight(spk) + sat_weight + call.args.tbc_weight)) \div 1000
            - call.args.tbc_fees
    IN  \/ inputs_sum > needed([ty |-> "p2wsh", prog |-> <<"sha256", "cpfp">>])
        \/ inputs_sum > needed([ty |-> "op_return", len |-> IF Len(txins) > 1 THEN 0 ELSE 22])

\* C18: when from_txins fails with InsufficientFunds, no subset of
\* available_utxos added to the to-be-CPFPed inputs reaches the target: for
\* every subset the sum of the inputs does not exceed the fees needed for
\* these inputs, whatever the values and the maximum satisfaction weights of
\* the candidates.
C18_InsufficientFundsExhaustive ==
    (call.op = "from_txins" /\ ret.res = "InsufficientFunds") =>
        \A S \in SUBSET (1..Len(call.args.available_utxos)) :
            ~ReachesTarget(call.args.to_be_cpfped \o UtxosAt(call.args.available_utxos, S))

\* C19: the inputs of every Ok result of from_txins are the to-be-CPFPed
\* inputs, in the order given, then candidates of available_utxos, the largest
\* ones, in descending order of value and each at most once; every input has
\* nSequence 0xfffffffd and a PSBT input with sighash type All, the witness
\* script, the bip32 paths and the witness_utxo of its txin; there are as many
\* PSBT inputs as inputs, and one output.
C19_CpfpInputs ==
    (call.op = "from_txins" /\ kind = "Cpfp") =>
        LET tbc == call.args.to_be_cpfped
            utxos == call.args.available_utxos
            tx == psbt.unsigned_tx
            k == Len(tbc)
            taken == {j \in 1..Len(utxos) :
                        \E i \in (k + 1)..Len(tx.input) : tx.input[i].previous_output = utxos[j].outpoint}
            carries(i, txin) ==
                /\ tx.input[i].previous_output = txin.outpoint
                /\ psbt.inputs[i].witness_utxo = << txin.txout.txout >>
                /\ psbt.inputs[i].witness_script = << txin.txout.witness_script >>
                /\ psbt.inputs[i].bip32_derivation = txin.txout.bip32_derivation
        IN
        /\ Len(tx.input) >= k
        /\ Len(psbt.inputs) = Len(tx.input)
        /\ Len(tx.output) = 1
        /\ Len(psbt.outputs) = 1
        /\ \A i \in 1..k : carries(i, tbc[i])
        /\ \A i \in (k + 1)..Len(tx.input) : \E j \in 1..Len(utxos) : carries(i, utxos[j])
        /\ \A i, j \in (k + 1)..Len(tx.input) :
              /\ i # j => tx.input[i].previous_output # tx.input[j].previous_output
              /\ i < j => AmtLe(Unwrap(psbt.inputs[j].witness_utxo).value,
                                Unwrap(psbt.inputs[i].witness_utxo).value)
        /\ \A j \in taken, l \in (1..Len(utxos)) \ taken :
              AmtLe(utxos[l].txout.txout.value, utxos[j].txout.txout.value)
        /\ \A i \in 1..Len(tx.input) :
              /\ tx.input[i].sequence = <<65535, 65533>>
              /\ psbt.inputs[i].sighash_type = <<1>>
              /\ psbt.inputs[i].bip32_derivation # {}
              /\ psbt.inputs[i].partial_sigs = <<>>
              /\ psbt.inputs[i].final_script_witness = <<>>

\* C19 witness: a result whose inputs are two to-be-CPFPed inputs, then a
\* candidate worth 30,000 sats and one worth 29,000, the candidate worth 4,000
\* sats left out.
C19_Witness ==
    /\ call.op = "from_txins"
    /\ kind = "Cpfp"
    /\ Len(call.args.to_be_cpfped) = 2
    /\ Len(call.args.available_utxos) = 3
    /\ Len(psbt.unsigned_tx.input) = 4
    /\ psbt.unsigned_tx.input[1].previous_output = 1
    /\ psbt.unsigned_tx.input[2].previous_output = 2
    /\ Unwrap(psbt.inputs[3].witness_utxo).value = Sat(30000)
    /\ Unwrap(psbt.inputs[4].witness_utxo).value = Sat(29000)
    /\ \E j \in 1..3 : call.args.available_utxos[j].txout.txout.value = Sat(4000)

-----------------------------------------------------------------------------
(* Claims on the descriptors, checked under SpecDesc *)

\* C20: UnvaultDescriptor::new and DerivedUnvaultDescriptor::new fail with
\* BadParameters whenever there is no stakeholder, no manager, the cosigners
\* are not as many as the stakeholders, the managers threshold exceeds the
\* number of managers, or the CSV value has a bit set above its low 16 bits;
\* whatever the keys are and whether the policy would compile.
C20_UnvaultBadParameters ==
    call.op \in {"UnvaultDescriptorNew", "DerivedUnvaultDescriptorNew"} =>
        LET a == call.args IN
        ( \/ Len(a.stakeholders) = 0
          \/ Len(a.managers) = 0
          \/ Len(a.cosigners) # Len(a.stakeholders)
          \/ a.managers_threshold > Len(a.managers)
          \/ \E b \in 0..15 : (a.csv[1] \div (2 ^ b)) % 2 = 1 )
            => ret.res = "BadParameters"

\* C20 witness: UnvaultDescriptor::new failed with BadParameters on a CSV value
\* with bit 16 set, although a stakeholder key has no wildcard and the policy
\* would not compile.
C20_Witness ==
    /\ call.op = "UnvaultDescriptorNew"
    /\ ret.res = "BadParameters"
    /\ call.args.csv = <<1, 0>>
    /\ Len(call.args.stakeholders) = 2
    /\ Len(call.args.cosigners) = 2
    /\ Len(call.args.managers) = 1
    /\ call.args.managers_threshold = 1
    /\ call.args.stakeholders[1] = "xpub_fixed"
    /\ ~call.args.compiles

\* C21: a call of UnvaultDescriptor::new or DerivedUnvaultDescriptor::new with
\* a managers threshold of zero is rejected by the parameter checks, that is
\* with BadParameters, and yields no descriptor.
C21_ZeroThresholdRejected ==
    ( /\ call.op \in {"UnvaultDescriptorNew", "DerivedUnvaultDescriptorNew"}
      /\ call.args.managers_threshold = 0 )
        => ret.res = "BadParameters"

\* C22: every generic descriptor obtained from DepositDescriptor::new,
\* CpfpDescriptor::new, UnvaultDescriptor::new or their from_str has only
\* xpubs with an unhardened wildcard as stakeholder and manager keys, and the
\* string of an Unvault descriptor without any xpub is rejected with NoXpub.
C22_GenericKeysDeriveable ==
    LET a == call.args
        constructors == {"DepositDescriptorNew", "CpfpDescriptorNew", "UnvaultDescriptorNew",
                         "DepositDescriptorFromStr", "CpfpDescriptorFromStr",
                         "UnvaultDescriptorFromStr"}
    IN  /\ ( /\ call.op \in constructors
             /\ kind \in {"DepositDescriptor", "CpfpDescriptor", "UnvaultDescriptor"} )
               => \A n \in 1..Len(a.stakeholders \o a.managers) :
                      (a.stakeholders \o a.managers)[n] = "xpub_wildcard"
        /\ ( /\ call.op = "UnvaultDescriptorFromStr"
             /\ a.str.wsh
             /\ \A n \in 1..Len(KeysOf(a.str.text)) : ~IsXPub(KeysOf(a.str.text)[n]) )
               => ret.res = "NoXpub"

\* C23: on an Unvault descriptor built by new with a managers threshold t in
\* 1..|managers|, and on the descriptor derived from it, csv_value() returns
\* the CSV value it was built with, and managers_threshold() returns Some(t)
\* when t < |managers| and None when t = |managers|.
C23_UnvaultGetters ==
    LET a == call.args
    IN  ( /\ call.op \in {"UnvaultDescriptorNew", "DerivedUnvaultDescriptorNew"}
          /\ kind \in {"UnvaultDescriptor", "DerivedUnvaultDescriptor"} )
          => /\ ret.op = "csv_value" => (ret.res = "Ok" /\ ret.val = Some(a.csv))
             /\ ( /\ ret.op = "managers_threshold"
                  /\ a.managers_threshold \in 1..Len(a.managers) )
                    => /\ ret.res = "Ok"
                       /\ ret.val = IF a.managers_threshold < Len(a.managers)
                                      THEN Some(a.managers_threshold)
                                      ELSE None

\* C23 witness: managers_threshold() returned None on the descriptor derived
\* from a generic Unvault descriptor of one stakeholder and all of its two
\* managers.
C23_Witness ==
    /\ call.op = "UnvaultDescriptorNew"
    /\ kind = "DerivedUnvaultDescriptor"
    /\ Len(call.args.stakeholders) = 1
    /\ Len(call.args.managers) = 2
    /\ call.args.managers_threshold = 2
    /\ ret.op = "managers_threshold"
    /\ ret.res = "Ok"
    /\ ret.val = None

-----------------------------------------------------------------------------
(* Claims on the derived public keys, checked under SpecKey *)

\* Has the string exactly the form [fingerprint/index]key: eight hexadecimal
\* digits, a slash, a decimal index below 2^31, and a public key to the end
HasDerivedKeyForm(str) ==
    LET at == Len(str) - 66
    IN  /\ at >= 12
        /\ str[1] = OpenBracket
        /\ \A n \in 2..9 : IsHexDigit(str[n])
        /\ str[10] = Slash
        /\ \A n \in 11..(at - 1) : IsDecDigit(str[n])
        /\ DecLe(StripLeading(SubSeq(str, 11, at - 1), Zero), MaxNormalIndex)
        /\ str[at] = CloseBracket
        /\ LowerAll(SubSeq(str, at + 1, Len(str))) \in PublicKeys

\* C24: DerivedPublicKey::from_str accepts a string only if it has exactly the
\* form [fingerprint/index]key, the string of the key it returns is the string
\* it was given, and the string of any key parses back to that key.
C24_DerivedKeyParsing ==
    /\ (call.op = "DerivedPublicKeyFromStr" /\ kind = "DerivedPublicKey")
          => HasDerivedKeyForm(call.args.str)
    /\ (call.op = "DerivedPublicKeyFromStr" /\ ret.op = "to_string")
          => ret.val = Some(call.args.str)
    /\ call.op = "DerivedPublicKeyRoundTrip"
          => (ret.res = "Ok" /\ ret.val = Some(call.args.key))

-----------------------------------------------------------------------------
(* Claims on the chain helpers, checked under SpecChain *)

\* The chain the last call of a chain helper returned
Chain == Unwrap(ret.val)

\* The Unvault that UnvaultTransaction::new builds from the arguments of the
\* call, with the descriptors derived at its index
ChainUnvault ==
    LET a == call.args
    IN  UnvaultNew(DepositTxInOf(a.deposit_outpoint, a.deposit_amount,
                                 DeriveAt(DepositDescriptor(a.max_sat_weight), a.derivation_index)),
                   DeriveAt(DerivedUnvaultDescriptor(144), a.derivation_index),
                   DeriveAt(CpfpDescriptor, a.derivation_index), a.lock_time)

\* Does the one input of transaction p spend the Unvault output of the
\* Unvault u, with the RBF sentinel as its nSequence
SpendsRevaultTxin(p, u, derivation_index) ==
    /\ Len(p.unsigned_tx.input) = 1
    /\ \E n \in 1..Len(u.unsigned_tx.output) :
          /\ u.unsigned_tx.output[n].script_pubkey
                 = P2wsh(<< DerivedUnvaultDescriptor(144).ws, derivation_index >>)
          /\ p.unsigned_tx.input[1].previous_output
                 = [txid |-> Txid(u.unsigned_tx), vout |-> n - 1]
          /\ Unwrap(p.inputs[1].witness_utxo) = u.unsigned_tx.output[n]
    /\ p.unsigned_tx.input[1].sequence = RBF_SEQUENCE

\* C25: transaction_chain and transaction_chain_manager return the Unvault
\* built from the deposit with the descriptors derived at the index; the
\* Cancel and the UnvaultEmergency spend the Unvault's revault txin, the
\* Emergency spends the deposit outpoint, the Cancel pays the deposit
\* descriptor derived at the same index, all have the lock_time given; and
\* when building the Unvault fails the call returns that error and no
\* transaction.
C25_TransactionChain ==
    ret.op \in {"transaction_chain", "transaction_chain_manager"} =>
      LET a == call.args
          whole == ret.op = "transaction_chain"
      IN  /\ ChainUnvault.res # "Ok"
                => /\ ret.res = ChainUnvault.res
                   /\ Chain = ChainError(ret.res)
          /\ ret.res # "Ok" => Chain = ChainError(ret.res)
          /\ ret.res = "Ok"
                => /\ Chain.unvault_tx = ChainUnvault.psbt
                   /\ SpendsRevaultTxin(Chain.cancel_tx, Chain.unvault_tx, a.derivation_index)
                   /\ Chain.cancel_tx.unsigned_tx.output[1].script_pubkey
                          = P2wsh(<< DepositDescriptor(a.max_sat_weight).ws, a.derivation_index >>)
                   /\ Chain.cancel_tx.unsigned_tx.lock_time = a.lock_time
                   /\ Chain.unvault_tx.unsigned_tx.lock_time = a.lock_time
                   /\ whole =>
                        /\ SpendsRevaultTxin(Chain.unvault_emergency_tx, Chain.unvault_tx,
                                             a.derivation_index)
                        /\ Len(Chain.emergency_tx.unsigned_tx.input) = 1
                        /\ Chain.emergency_tx.unsigned_tx.input[1].previous_output
                               = a.deposit_outpoint
                        /\ Unwrap(Chain.emergency_tx.inputs[1].witness_script)
                               = << DepositDescriptor(a.max_sat_weight).ws, a.derivation_index >>
                        /\ Chain.emergency_tx.unsigned_tx.lock_time = a.lock_time
                        /\ Chain.unvault_emergency_tx.unsigned_tx.lock_time = a.lock_time

\* C25 witness: transaction_chain returned the four transactions at the
\* largest unhardened index and a lock_time of 144.
C25_Witness ==
    /\ ret.op = "transaction_chain"
    /\ ret.res = "Ok"
    /\ call.args.derivation_index = 2147483647
    /\ call.args.lock_time = 144
    /\ Len(Chain.unvault_emergency_tx.unsigned_tx.input) = 1
    /\ Len(Chain.cancel_tx.unsigned_tx.output) = 1

-----------------------------------------------------------------------------
(* Claims on the output and the loop of from_txins, checked under SpecCpfp *)

\* The fees from_txins needs of the transaction that was returned, had it a
\* change output: the target feerate times the weight of the package over
\* 1000, less the fees the transactions to bump paid. An integer, negative
\* where the Amount subtraction would underflow.
CpfpNeededChange ==
    LET tbc == call.args.to_be_cpfped
        with_change == [psbt.unsigned_tx EXCEPT !.output[1] = tbc[Len(tbc)].txout.txout]
        sat_weight == IntSum([n \in 1..Len(psbt.inputs) |->
                                ScriptMaxSatWeight(Unwrap(psbt.inputs[n].witness_script))])
    IN  (CpfpTargetFeerate * (get_weight(with_change) + sat_weight + call.args.tbc_weight))
            \div 1000 - call.args.tbc_fees

\* C26: the one output of every Ok result of from_txins is a change output,
\* paying the script of the last to-be-CPFPed input the sum of the inputs less
\* the fees needed with a change, exactly when that difference is more than
\* CPFP_MIN_CHANGE; otherwise it is an OP_RETURN output worth nothing, with no
\* data when the transaction has two inputs or more and with 22 zero bytes
\* when it has one.
C26_ChangeOrOpReturn ==
    (call.op = "from_txins" /\ kind = "Cpfp") =>
        LET tbc == call.args.to_be_cpfped
            tx == psbt.unsigned_tx
            inputs_sum == as_sat(InputsValue(psbt))
        IN  /\ Len(tx.output) = 1
            /\ IF inputs_sum - CpfpNeededChange > CPFP_MIN_CHANGE
                 THEN tx.output[1] = [script_pubkey |-> tbc[Len(tbc)].txout.txout.script_pubkey,
                                      value |-> Sat(inputs_sum - CpfpNeededChange)]
                 ELSE tx.output[1] = [script_pubkey |-> OpReturn(IF Len(tx.input) >= 2 THEN 0 ELSE 22),
                                      value |-> Sat(0)]

\* C26 witness: a result of two inputs or more whose inputs leave a change of
\* CPFP_MIN_CHANGE or less, and so carries an OP_RETURN output without data.
C26_Witness ==
    /\ call.op = "from_txins"
    /\ kind = "Cpfp"
    /\ Len(psbt.unsigned_tx.input) >= 2
    /\ as_sat(InputsValue(psbt)) - CpfpNeededChange <= CPFP_MIN_CHANGE
    /\ as_sat(InputsValue(psbt)) - CpfpNeededChange > 0
    /\ psbt.unsigned_tx.output[1].script_pubkey = OpReturn(0)

\* A result of one input that leaves a change of exactly CPFP_MIN_CHANGE, and
\* one that leaves one sat more
C26_AtMinChange ==
    /\ call.op = "from_txins"
    /\ kind = "Cpfp"
    /\ Len(psbt.unsigned_tx.input) = 1
    /\ as_sat(InputsValue(psbt)) - CpfpNeededChange = CPFP_MIN_CHANGE
    /\ psbt.unsigned_tx.output[1].script_pubkey = OpReturn(22)
C26_AboveMinChange ==
    /\ call.op = "from_txins"
    /\ kind = "Cpfp"
    /\ as_sat(InputsValue(psbt)) - CpfpNeededChange = CPFP_MIN_CHANGE + 1
    /\ psbt.unsigned_tx.output[1].value = Sat(CPFP_MIN_CHANGE + 1)

-----------------------------------------------------------------------------
(* Claims on the finalized transactions, checked under Spec *)

\* Is input number n (from 1) of p final
IsFinalInput(p, n) == IsSome(p.inputs[n].final_script_witness)

\* C27: final and non-final inputs are never mixed: in every state of a
\* transaction that a constructor or a parser returned, after any add_signature
\* and finalize calls, all inputs carry final_script_witness or none does, and
\* max_weight of a Spend does not panic. The finalizer seals the inputs in
\* place and stops at the first it cannot satisfy, leaving the inputs before
\* it final: this is violated.
C27_NeverMixed ==
    kind # "none" =>
        /\ ~\E n, m \in 1..Len(psbt.inputs) : IsFinalInput(psbt, n) /\ ~IsFinalInput(psbt, m)
        /\ is_finalized(psbt) => \A n \in 1..Len(psbt.inputs) : IsFinalInput(psbt, n)
        /\ kind = "Spend" => max_weight(psbt) # "panic"

\* C28: finalization is irreversible: once is_finalized() is true of a
\* transaction it is true after every add_signature, finalize, is_finalizable,
\* is_finalized, is_valid, verify_inputs and signature_hash call, whether the
\* call succeeds or fails.
C28_FinalizedForever ==
    [][ (kind # "none" /\ is_finalized(psbt)) => (kind' = kind /\ is_finalized(psbt')) ]_vars

\* C28 witness: an add_signature call succeeded on an input of a transaction
\* another input of which is final, and the transaction is still finalized.
C28_Witness ==
    /\ kind # "none"
    /\ ret.op = "add_signature"
    /\ ret.res = "Ok"
    /\ is_finalized(psbt)

\* The unsigned transaction the constructor that was called builds from its
\* arguments
ConstructedTx ==
    IF call.op = "SpendNew"
      THEN SpendNew(call.args.unvault_inputs, call.args.spend_txouts, call.args.change_txout,
                    CpfpDescriptor, 0, call.args.insane_fee_check).psbt.unsigned_tx
      ELSE psbt.unsigned_tx

\* C29: the unsigned transaction is fixed at construction: no add_signature
\* or finalize call, successful or failing, and no other call changes its
\* inputs, outputs, version or lock_time, and txid() returns the same value in
\* every state of the transaction.
C29_UnsignedTxFixed ==
    [][ (kind # "none" /\ kind' # "none")
           => /\ psbt'.unsigned_tx.input = psbt.unsigned_tx.input
              /\ psbt'.unsigned_tx.output = psbt.unsigned_tx.output
              /\ psbt'.unsigned_tx.version = psbt.unsigned_tx.version
              /\ psbt'.unsigned_tx.lock_time = psbt.unsigned_tx.lock_time
              /\ Txid(psbt'.unsigned_tx) = Txid(psbt.unsigned_tx) ]_vars

\* C29 witness: a Spend that was signed and that finalize sealed has the
\* unsigned transaction, and the txid, SpendTransaction::new gave it.
C29_Witness ==
    /\ kind = "Spend"
    /\ call.op = "SpendNew"
    /\ ret.op = "finalize"
    /\ ret.res = "Ok"
    /\ \A n \in 1..Len(psbt.inputs) : IsFinalInput(psbt, n)
    /\ Len(psbt.inputs) >= 1
    /\ psbt.unsigned_tx = ConstructedTx
    /\ Txid(psbt.unsigned_tx) = Txid(ConstructedTx)

-----------------------------------------------------------------------------
(* Claim on the loop of from_txins, checked under SpecCpfpU64 *)

\* C30: for a non-empty to_be_cpfped and tbc_weight > 0 the loop of
\* from_txins ends with Ok or with Err(InsufficientFunds), having taken at
\* most every candidate once, and the subtraction of tbc_fees from the fees of
\* the package never underflows: the call never panics. With an added_feerate
\* at the top of the u64 range the feerate arithmetic overflows, and where it
\* wraps to a target below the feerate already paid the subtraction
\* underflows: this is violated.
C30_LoopEndsWithoutUnderflow ==
    (call.op = "from_txins" /\ Len(call.args.to_be_cpfped) > 0 /\ call.args.tbc_weight > 0) =>
        /\ ret.res # "panic"
        /\ kind = "Cpfp" \/ ret.res = "InsufficientFunds"
        /\ kind = "Cpfp" =>
              Len(psbt.unsigned_tx.input)
                  <= Len(call.args.to_be_cpfped) + Len(call.args.available_utxos)

====
